---- MODULE Spec2Model ----
(***************************************************************************)
(* Markdown parser and rhythmic reflow engine of articlebot3               *)
(* (src/document_publisher.py, duplicated in src/publish_gdoc_html.py).    *)
(*                                                                         *)
(* Text is a sequence of one-character strings.  Each character of the     *)
(* model stands for the class of source characters the code treats alike:  *)
(*   "x"  any character with no special role                               *)
(*   "."  the terminal marks 。 and ．  (deleted after a closing quote,     *)
(*        sentence end, stripped from the front of a sentence)             *)
(*   "!"  the terminal marks ！ and ？  (sentence end only)                 *)
(*   "["  the opening quotes 「 and 『                                      *)
(*   "]"  the closing quote 」                                              *)
(*   "}"  the closing quote 』  (also stripped from the front)              *)
(*   ","  the characters 、 ， ） and the double quote (front strip only)   *)
(*   " "  half-width space or tab                                          *)
(*   "_"  full-width space U+3000 (str.isspace and \s accept it)           *)
(*   "\n" newline                                                          *)
(***************************************************************************)
EXTENDS Integers, Sequences, FiniteSets, TLC

VARIABLES
    \* _reflow_paragraph_text
    text, sentences_per_para, txt, i, current, in_quote, sentences,
    cleaned_sentences, paras, pc,
    \* md_to_html
    lines, line_no, out, in_list, list_tag, html_body, mpc,
    \* rhythmic_reflow_html
    html_text, per_para, soup, frames, blocks_processed, total_new_paras, rpc,
    \* main: md_to_html, then the reflow between protect and restore
    md_text, args_reflow, args_sentences_per_para, main_html_text, main_pc,
    \* lib/llm.py: LLMClient.generate and _generate_openai
    max_tokens, model_max, current_max, retry_count, finish_reason, resp_text,
    requested, handler_limit, lpc,
    \* process_csv
    rows, file, limit, csv_idx, processed, attempted, writes, cpc,
    \* sanitize_generated_markdown
    san_md, selected_title, san_lines, found_h1, spc

segVars == <<text, sentences_per_para, txt, i, current, in_quote, sentences,
             cleaned_sentences, paras, pc>>

mdVars == <<lines, line_no, out, in_list, list_tag, html_body, mpc>>

reflowVars == <<html_text, per_para, soup, frames, blocks_processed,
               total_new_paras, rpc>>

mainVars == <<md_text, args_reflow, args_sentences_per_para, main_html_text,
              main_pc>>

llmVars == <<max_tokens, model_max, current_max, retry_count, finish_reason,
             resp_text, requested, handler_limit, lpc>>

csvVars == <<rows, file, limit, csv_idx, processed, attempted, writes, cpc>>

sanVars == <<san_md, selected_title, san_lines, found_h1, spc>>

toolVars == <<llmVars, csvVars, sanVars>>

docVars == <<segVars, mdVars, reflowVars, mainVars>>

vars == <<segVars, mdVars, reflowVars, mainVars, toolVars>>

\* ------------------------------------------------------------------ bounds
MaxLen == 4        \* longest text enumerated exhaustively
MaxN == 3          \* largest sentences_per_para tried
MaxLineLen == 4    \* longest Markdown line enumerated exhaustively
MaxParts == 3      \* most separator-and-part pairs of a generated inline list line
MaxLines == 3      \* most lines of a generated Markdown document
MaxNodes == 3      \* most children of the root of a generated document tree
MaxPerPara == 2    \* largest sentences_per_para of a reflowed document

\* ---------------------------------------------------------------- characters
IsSpace(c) == c \in {" ", "_", "\n"}          \* str.isspace(), regex \s
IsHalfSpace(c) == c = " "                     \* regex [ \t]
IsOpenQuote(c) == c = "["                     \* char in "「『"
IsCloseQuote(c) == c \in {"]", "}"}           \* char in "」』"
IsKuten(c) == c = "."                         \* regex [。．]
IsTerminal(c) == c \in {".", "!"}             \* char in "。．！？"
IsLeadPunct(c) == c \in {".", ",", "}"}       \* regex [。、．，）"』]

\* ------------------------------------------------------------ string helpers
\* "".join(ss[lo..hi]), by halves
RECURSIVE FlattenRange(_, _, _)
FlattenRange(ss, lo, hi) ==
    IF lo > hi THEN <<>>
    ELSE IF lo = hi THEN ss[lo]
    ELSE FlattenRange(ss, lo, (lo + hi) \div 2)
             \o FlattenRange(ss, (lo + hi) \div 2 + 1, hi)

Flatten(ss) == FlattenRange(ss, 1, Len(ss))

SeqsUpTo(S, k) == UNION {[1..m -> S] : m \in 0..k}

MinOf(S) == CHOOSE m \in S : \A o \in S : m <= o
MaxOf(S) == CHOOSE m \in S : \A o \in S : m >= o

\* first index >= p of s that holds no whitespace (past the end when none)
SkipSpaces(s, p) ==
    LET stop == {q \in p..Len(s) : ~IsSpace(s[q])}
    IN  IF stop # {} THEN MinOf(stop) ELSE IF p > Len(s) THEN p ELSE Len(s) + 1

\* last index <= p of s that holds no whitespace (0 when none)
SkipSpacesBack(s, p) ==
    LET stop == {q \in 1..p : ~IsSpace(s[q])}
    IN  IF stop # {} THEN MaxOf(stop) ELSE 0

\* first index of s that holds none of 。、．，）"』
SkipLeadPunct(s) ==
    LET stop == {q \in 1..Len(s) : ~IsLeadPunct(s[q])}
    IN  IF stop # {} THEN MinOf(stop) ELSE Len(s) + 1

\* str.strip()
Strip(s) ==
    LET a == SkipSpaces(s, 1)
        b == SkipSpacesBack(s, Len(s))
    IN  IF a > b THEN <<>> ELSE SubSeq(s, a, b)

\* str.lstrip() / str.rstrip()
LStrip(s) == SubSeq(s, SkipSpaces(s, 1), Len(s))
RStrip(s) == SubSeq(s, 1, SkipSpacesBack(s, Len(s)))

\* re.sub(R* "\n"+ R*, "", s) with R = \s (wide) or [ \t]: every maximal run
\* of R characters and newlines that holds a newline is deleted
DropNewlineRuns(s, wide) ==
    LET InRun(c) == c = "\n" \/ (IF wide THEN IsSpace(c) ELSE IsHalfSpace(c))
        Between(p, q) == (IF p < q THEN p ELSE q)..(IF p < q THEN q ELSE p)
        KeepAt(p) ==
            ~(/\ InRun(s[p])
              /\ \E q \in 1..Len(s) :
                     s[q] = "\n" /\ \A r \in Between(p, q) : InRun(s[r]))
        idx == SelectSeq([k \in 1..Len(s) |-> k], KeepAt)
    IN  [k \in 1..Len(idx) |-> s[idx[k]]]

\* ------------------------------------------------- _reflow_paragraph_text
\* line 166: re.sub(r"[ \t]*\n+[ \t]*", "", text)
StripNewlines(s) == DropNewlineRuns(s, FALSE)

\* line 167: re.sub(r'([」』])([。．])', r'\1', txt): every 。/． that directly
\* follows a closing quote is deleted (the matches cannot overlap)
DeleteKutenAfterQuote(s) ==
    LET Kept(p) == ~(p > 1 /\ IsKuten(s[p]) /\ IsCloseQuote(s[p - 1]))
        idx == SelectSeq([k \in 1..Len(s) |-> k], Kept)
    IN  [k \in 1..Len(idx) |-> s[idx[k]]]

\* line 168: re.sub(r'([」』])[　\s]+([。．])', r'\1', txt): a run of whitespace
\* after a closing quote is deleted with the 。/． that ends it
DeleteSpacedKutenAfterQuote(s) ==
    LET Matches(p) == /\ IsCloseQuote(s[p])
                      /\ SkipSpaces(s, p + 1) > p + 1
                      /\ SkipSpaces(s, p + 1) <= Len(s)
                      /\ IsKuten(s[SkipSpaces(s, p + 1)])
        Kept(r) == ~\E p \in 1..(r - 1) :
                       Matches(p) /\ r <= SkipSpaces(s, p + 1)
        idx == SelectSeq([k \in 1..Len(s) |-> k], Kept)
    IN  [k \in 1..Len(idx) |-> s[idx[k]]]

\* lines 166-168
NormalizeText(s) ==
    DeleteSpacedKutenAfterQuote(DeleteKutenAfterQuote(StripNewlines(s)))

\* ScanStep without the quote test of line 181 (every terminal mark splits)
ScanStepIgnoringQuotes(st, t, k) ==
    LET char == t[k + 1]
        cur == Append(st.current, char)
        inq == IF IsOpenQuote(char) THEN TRUE
               ELSE IF IsCloseQuote(char) THEN FALSE
               ELSE st.in_quote
        closes == /\ IsTerminal(char)
                  /\ k + 1 < Len(t)
                  /\ ~IsSpace(t[k + 2])
        sent == Strip(cur)
    IN  [sentences |-> IF closes /\ sent # <<>>
                       THEN Append(st.sentences, sent) ELSE st.sentences,
         current   |-> IF closes THEN <<>> ELSE cur,
         in_quote  |-> inq]

\* ScanStep without the next-character test of line 183
ScanStepIgnoringNext(st, t, k) ==
    LET char == t[k + 1]
        cur == Append(st.current, char)
        inq == IF IsOpenQuote(char) THEN TRUE
               ELSE IF IsCloseQuote(char) THEN FALSE
               ELSE st.in_quote
        closes == /\ ~inq
                  /\ IsTerminal(char)
                  /\ k + 1 < Len(t)
        sent == Strip(cur)
    IN  [sentences |-> IF closes /\ sent # <<>>
                       THEN Append(st.sentences, sent) ELSE st.sentences,
         current   |-> IF closes THEN <<>> ELSE cur,
         in_quote  |-> inq]

\* ScanStep where only the closing quote of the first kind ends a quotation
ScanStepClosingOneKind(st, t, k) ==
    LET char == t[k + 1]
        cur == Append(st.current, char)
        inq == IF IsOpenQuote(char) THEN TRUE
               ELSE IF char = "]" THEN FALSE
               ELSE st.in_quote
        closes == /\ ~inq
                  /\ IsTerminal(char)
                  /\ k + 1 < Len(t)
                  /\ ~IsSpace(t[k + 2])
        sent == Strip(cur)
    IN  [sentences |-> IF closes /\ sent # <<>>
                       THEN Append(st.sentences, sent) ELSE st.sentences,
         current   |-> IF closes THEN <<>> ELSE cur,
         in_quote  |-> inq]

\* lines 175-187: one iteration of the scan, on the character t[k + 1]
\* (k characters consumed so far); st = [sentences, current, in_quote]
ScanStep(st, t, k) ==
    LET char == t[k + 1]
        cur == Append(st.current, char)
        inq == IF IsOpenQuote(char) THEN TRUE
               ELSE IF IsCloseQuote(char) THEN FALSE
               ELSE st.in_quote
        closes == /\ ~inq
                  /\ IsTerminal(char)
                  /\ k + 1 < Len(t)
                  /\ ~IsSpace(t[k + 2])
        sent == Strip(cur)
    IN  [sentences |-> IF closes /\ sent # <<>>
                       THEN Append(st.sentences, sent) ELSE st.sentences,
         current   |-> IF closes THEN <<>> ELSE cur,
         in_quote  |-> inq]

\* FlushCurrent forgetting the rest of the buffer
FlushCurrentForgotten(sents, cur) == sents

\* lines 189-192: the rest of the buffer is the last sentence
FlushCurrent(sents, cur) ==
    IF cur # <<>> /\ Strip(cur) # <<>> THEN Append(sents, Strip(cur)) ELSE sents

\* line 196: re.sub(r'^[。、．，）"』]+\s*', '', sent).strip()
CleanSentence(sent) ==
    LET a == SkipLeadPunct(sent)
        b == IF a > 1 THEN SkipSpaces(sent, a) ELSE 1
    IN  Strip(SubSeq(sent, b, Len(sent)))

\* lines 194-198
CleanAll(sents) ==
    LET NonEmpty(c) == c # <<>>
    IN  SelectSeq([k \in 1..Len(sents) |-> CleanSentence(sents[k])], NonEmpty)

\* every sentence in one chunk, whatever n
MakeParasOneChunk(cl, n) == <<Strip(Flatten(cl))>>

\* lines 203-208: one chunk for every i of range(0, len(cleaned), n), the
\* empty chunks left out
MakeParas(cl, n) ==
    LET NonEmpty(c) == c # <<>>
        chunk(j) == Strip(Flatten(SubSeq(cl, (j - 1) * n + 1,
                                         MinOf({j * n, Len(cl)}))))
    IN  SelectSeq([j \in 1..((Len(cl) + n - 1) \div n) |-> chunk(j)], NonEmpty)

\* the variables of md_to_html while another function is checked
MdIdle ==
    /\ lines = <<>>
    /\ line_no = 0
    /\ out = <<>>
    /\ in_list = FALSE
    /\ list_tag = "none"
    /\ html_body = <<>>
    /\ mpc = "idle"

\* the variables of _reflow_paragraph_text while another function is checked
SegIdle ==
    /\ text = <<>>
    /\ sentences_per_para = 1
    /\ txt = <<>>
    /\ i = 0
    /\ current = <<>>
    /\ in_quote = FALSE
    /\ sentences = <<>>
    /\ cleaned_sentences = <<>>
    /\ paras = <<>>
    /\ pc = "idle"

\* the variables of rhythmic_reflow_html while another function is checked
MainIdle ==
    /\ md_text = <<>>
    /\ args_reflow = 0
    /\ args_sentences_per_para = 1
    /\ main_html_text = <<>>
    /\ main_pc = "idle"

ReflowIdle ==
    /\ html_text = <<>>
    /\ per_para = 1
    /\ soup = <<>>
    /\ frames = <<>>
    /\ blocks_processed = 0
    /\ total_new_paras = 0
    /\ rpc = "idle"

\* the variables of the other modules while the publisher is checked
LlmIdle ==
    /\ max_tokens = 1
    /\ model_max = 1
    /\ current_max = 0
    /\ retry_count = 0
    /\ finish_reason = "none"
    /\ resp_text = ""
    /\ requested = <<>>
    /\ handler_limit = 0
    /\ lpc = "idle"

CsvIdle ==
    /\ rows = <<>>
    /\ file = <<>>
    /\ limit = 0
    /\ csv_idx = 0
    /\ processed = 0
    /\ attempted = <<>>
    /\ writes = 0
    /\ cpc = "idle"

SanIdle ==
    /\ san_md = <<>>
    /\ selected_title = <<>>
    /\ san_lines = <<>>
    /\ found_h1 = FALSE
    /\ spc = "idle"

DocsIdle == SegIdle /\ MdIdle /\ ReflowIdle /\ MainIdle

ToolsIdle == LlmIdle /\ CsvIdle /\ SanIdle

\* ---------------------------------------------------------------- inputs
SegAlphabet == {"x", ".", "!", "[", "]", "}", ",", " "}

\* the worked examples of the specification, in the model's characters:
\*   これはテストです。次も文です。      彼は「もうやめた。」と言った。
\*   five sentences                      「『あ』い。う」 (a quote in a quote)
SampleTexts ==
    { <<"x", "x", ".", "x", "x", ".">>,
      <<"x", "[", "x", ".", "]", ".", "x", ".">>,
      <<"x", "!", "x", "!", "x", "!", "x", "!", "x">>,
      <<"[", "[", "x", "}", "x", ".", "x", "]">> }

SegTexts == SeqsUpTo(SegAlphabet, MaxLen) \cup SampleTexts

\* ------------------------------------------- _reflow_paragraph_text, stepwise
InitSeg ==
    /\ text \in SegTexts
    /\ sentences_per_para \in 1..MaxN
    /\ txt = <<>>
    /\ i = 0
    /\ current = <<>>
    /\ in_quote = FALSE
    /\ sentences = <<>>
    /\ cleaned_sentences = <<>>
    /\ paras = <<>>
    /\ pc = "normalize"
    /\ MdIdle
    /\ ReflowIdle
    /\ MainIdle
    /\ ToolsIdle

\* lines 166-172
Normalize ==
    /\ pc = "normalize"
    /\ txt' = NormalizeText(text)
    /\ pc' = "scan"
    /\ UNCHANGED <<text, sentences_per_para, i, current, in_quote, sentences,
                   cleaned_sentences, paras>>

\* lines 174-187, one iteration
ScanChar ==
    /\ pc = "scan"
    /\ i < Len(txt)
    /\ LET st == ScanStep([sentences |-> sentences, current |-> current,
                           in_quote |-> in_quote], txt, i)
       IN  /\ sentences' = st.sentences
           /\ current' = st.current
           /\ in_quote' = st.in_quote
    /\ i' = i + 1
    /\ UNCHANGED <<text, sentences_per_para, txt, cleaned_sentences, paras, pc>>

\* lines 189-192
FlushRest ==
    /\ pc = "scan"
    /\ i = Len(txt)
    /\ sentences' = FlushCurrent(sentences, current)
    /\ pc' = "clean"
    /\ UNCHANGED <<text, sentences_per_para, txt, i, current, in_quote,
                   cleaned_sentences, paras>>

\* lines 194-201
CleanSentences ==
    /\ pc = "clean"
    /\ cleaned_sentences' = CleanAll(sentences)
    /\ IF cleaned_sentences' = <<>>
       THEN /\ paras' = IF Strip(text) # <<>> THEN <<Strip(text)>> ELSE <<>>
            /\ pc' = "done"
       ELSE /\ paras' = paras
            /\ pc' = "chunk"
    /\ UNCHANGED <<text, sentences_per_para, txt, i, current, in_quote, sentences>>

\* lines 203-208
ChunkSentences ==
    /\ pc = "chunk"
    /\ paras' = MakeParas(cleaned_sentences, sentences_per_para)
    /\ pc' = "done"
    /\ UNCHANGED <<text, sentences_per_para, txt, i, current, in_quote, sentences,
                   cleaned_sentences>>

NextSeg ==
    \/ Normalize /\ UNCHANGED <<mdVars, reflowVars, mainVars, toolVars>>
    \/ ScanChar /\ UNCHANGED <<mdVars, reflowVars, mainVars, toolVars>>
    \/ FlushRest /\ UNCHANGED <<mdVars, reflowVars, mainVars, toolVars>>
    \/ CleanSentences /\ UNCHANGED <<mdVars, reflowVars, mainVars, toolVars>>
    \/ ChunkSentences /\ UNCHANGED <<mdVars, reflowVars, mainVars, toolVars>>

SpecSeg == InitSeg /\ [][NextSeg]_vars

\* ------------------------------------------------------ segmentation claims
NotSpace(c) == ~IsSpace(c)
NoWs(s) == SelectSeq(s, NotSpace)

\* neither whitespace nor one of 。．、，）"』
IsCore(c) == ~IsSpace(c) /\ ~IsLeadPunct(c)
Core(s) == SelectSeq(s, IsCore)

RECURSIVE IsSubseq(_, _)
IsSubseq(a, b) ==
    IF a = <<>> THEN TRUE
    ELSE IF b = <<>> THEN FALSE
    ELSE IF Head(a) = Head(b) THEN IsSubseq(Tail(a), Tail(b))
    ELSE IsSubseq(a, Tail(b))

\* C2 as stated: the chunk paragraphs, concatenated, equal the text of the
\* group up to whitespace; no other character is added, removed or reordered.
C2_ContentConserved ==
    pc = "done" => NoWs(Flatten(paras)) = NoWs(text)

\* C2 amended: up to whitespace the chunk paragraphs, concatenated, are the
\* text of the group with nothing added or reordered, and the only characters
\* that may be missing are 。 ． 、 ， ） " 』 (the terminal mark deleted after
\* a closing quote, the stray punctuation stripped from a sentence's front).
C2_ContentConservedUpToCleanup ==
    pc = "done" =>
        /\ IsSubseq(NoWs(Flatten(paras)), NoWs(text))
        /\ Core(Flatten(paras)) = Core(text)

\* a text that loses a mark after a closing quote and is split in two
C2_Witness ==
    /\ pc = "done"
    /\ Len(paras) >= 2
    /\ NoWs(Flatten(paras)) # NoWs(text)
    /\ Core(text) # <<>>

\* a sentence was completed by the scan step on character txt[i + 1]
SentenceClosed == pc = "scan" /\ i' = i + 1 /\ Len(sentences') > Len(sentences)

QuoteBalance(t, j, k) ==
    Cardinality({q \in j..k : IsOpenQuote(t[q])})
        - Cardinality({q \in j..k : IsCloseQuote(t[q])})

\* position p lies between an opening quote and the closing quote matching it
InsideQuotation(t, p) ==
    \E j \in 1..(p - 1) :
        /\ IsOpenQuote(t[j])
        /\ \E k \in (p + 1)..Len(t) :
               /\ QuoteBalance(t, j, k) = 0
               /\ \A m \in j..(k - 1) : QuoteBalance(t, j, m) > 0

\* position p lies after an opening quote with no closing quote in between
InOpenQuote(t, p) ==
    \E j \in 1..p :
        /\ IsOpenQuote(t[j])
        /\ \A k \in (j + 1)..p : ~IsCloseQuote(t[k])

TwoSentenceText == <<"x", "x", ".", "x", "x", ".">>

\* C5: the scan closes a sentence after a character iff it is one of 。．！？,
\* inQuote is false, a next character exists and is not whitespace; otherwise
\* the character only joins the buffer; the rest of the buffer is flushed as
\* the last sentence; the two-sentence example with N = 1 gives 2 paragraphs.
C5_SentenceBoundaryRule ==
    [][/\ (pc = "scan" /\ i' = i + 1) =>
            LET boundary == /\ IsTerminal(txt[i + 1])
                            /\ ~in_quote'
                            /\ i + 1 < Len(txt)
                            /\ ~IsSpace(txt[i + 2])
            IN  /\ boundary <=> (Len(sentences') = Len(sentences) + 1)
                /\ boundary <=> (current' = <<>>)
                /\ ~boundary => /\ sentences' = sentences
                                /\ current' = Append(current, txt[i + 1])
       /\ (pc = "scan" /\ pc' = "clean" /\ NoWs(current) # <<>>) =>
            /\ Len(sentences') = Len(sentences) + 1
            /\ NoWs(sentences'[Len(sentences')]) = NoWs(current)
       /\ (pc' = "done" /\ text = TwoSentenceText /\ sentences_per_para = 1) =>
            paras' = <<<<"x", "x", ".">>, <<"x", "x", ".">>>>
      ]_vars

\* the two-sentence example was reflowed with N = 1
C5_Witness ==
    /\ pc = "done"
    /\ text = TwoSentenceText
    /\ sentences_per_para = 1
    /\ Len(paras) = 2

\* C6: no paragraph produced by reflow holds a closing quote 」/』 directly
\* followed by 。 or ．.
C6_NoKutenAfterClosingQuote ==
    pc = "done" =>
        \A k \in 1..Len(paras) : \A q \in 1..(Len(paras[k]) - 1) :
            ~(IsCloseQuote(paras[k][q]) /\ IsKuten(paras[k][q + 1]))

\* the clean-up of lines 194-198 has run
Cleaned == pc \in {"chunk", "done"}

\* C20: every sentence returned by the segmentation is non-empty, has no
\* whitespace at either end and does not begin with one of 。、．，）"』; a
\* sentence made of such characters (and whitespace) only is discarded.
C20_CleanSentences ==
    Cleaned =>
        /\ \A k \in 1..Len(cleaned_sentences) :
               LET s == cleaned_sentences[k]
               IN  /\ s # <<>>
                   /\ ~IsSpace(s[1]) /\ ~IsSpace(s[Len(s)])
                   /\ ~IsLeadPunct(s[1])
        /\ Len(cleaned_sentences) =
               Cardinality({k \in 1..Len(sentences) : Core(sentences[k]) # <<>>})

\* the quote characters among the first k characters of t
QuotesSeen(t, k) == {p \in 1..k : IsOpenQuote(t[p]) \/ IsCloseQuote(t[p])}

\* C25: at every position of the scan in_quote is true exactly when the most
\* recent quote character scanned is an opening quote: a closing quote of
\* either kind clears it however many opening quotes came before, and it is
\* false while no quote or only closing quotes were scanned.
C25_QuoteStateIsBoolean ==
    pc = "scan" =>
        in_quote = (/\ QuotesSeen(txt, i) # {}
                    /\ IsOpenQuote(txt[MaxOf(QuotesSeen(txt, i))]))

\* two opening quotes and one closing quote were scanned: in_quote is false
\* with one quotation still open
C25_Witness ==
    /\ pc = "scan"
    /\ i = 3
    /\ SubSeq(txt, 1, 3) = <<"[", "[", "}">>
    /\ ~in_quote

\* ================================================================ md_to_html
\* Markdown characters (on top of the whitespace " " and "_" above):
\*   "#" "-"   themselves          "1"  a digit (\d)
\*   ")"  one of . and )  ([.)])   "T"  a connective token of RX_POST_TOKENS
\*   "x"  any other character
IsDigit(c) == c = "1"
IsDot(c) == c = ")"
IsToken(c) == c = "T"

\* an entry of out: the element written, with the text handed to render_inline
\* ("ul"/"ol" an opening tag, "/ul"/"/ol" a closing tag, "" a blank entry)
El(tag, t) == [tag |-> tag, text |-> t]

\* number of list parts an inline list needs (lines 106, 118)
MinInlinePartsTwo == 3 - 1
MinInlineParts == 3

\* first index >= p of s that holds no digit
SkipDigits(s, p) ==
    LET stop == {q \in p..Len(s) : ~IsDigit(s[q])}
    IN  IF stop # {} THEN MinOf(stop) ELSE IF p > Len(s) THEN p ELSE Len(s) + 1

\* a match of "-\s+" (RX_UL_SPLIT) or "\d+[.)]\s+" (RX_OL_SPLIT) starting at
\* index p of s: the index of its last character, 0 when there is none
SepEnd(s, p, tag) ==
    LET d == IF tag = "ul" THEN p ELSE SkipDigits(s, p)
    IN  IF /\ p <= Len(s)
           /\ IF tag = "ul" THEN s[p] = "-"
              ELSE IsDigit(s[p]) /\ d <= Len(s) /\ IsDot(s[d])
           /\ d + 1 <= Len(s)
           /\ IsSpace(s[d + 1])
        THEN SkipSpaces(s, d + 1) - 1
        ELSE 0

\* RX_UL_HEAD / RX_OL_HEAD .match(ln): the index of the last character of the
\* match of "^\s*-\s+" / "^\s*\d+[.)]\s+", 0 when the line does not match
HeadEnd(ln, tag) == SepEnd(ln, SkipSpaces(ln, 1), tag)

\* RX_UL_INLINE_START / RX_OL_INLINE_START .search(ln): the index where the
\* leftmost match of "-\s+\S" / "\d+[.)]\s+\S" starts, 0 when there is none
InlineStart(ln, tag) ==
    LET hits == {p \in 1..Len(ln) :
                    LET e == SepEnd(ln, p, tag) IN e > 0 /\ e < Len(ln)}
    IN  IF hits = {} THEN 0 ELSE MinOf(hits)

\* RX_UL_SPLIT / RX_OL_SPLIT .split(s): the pieces between the separators,
\* piece by piece from index p on (start: where the current piece began)
RECURSIVE SplitPieces(_, _, _, _)
SplitPieces(s, p, start, tag) ==
    IF p > Len(s) THEN <<SubSeq(s, start, Len(s))>>
    ELSE LET e == SepEnd(s, p, tag)
         IN  IF e > 0
             THEN <<SubSeq(s, start, p - 1)>> \o SplitPieces(s, e + 1, e + 1, tag)
             ELSE SplitPieces(s, p + 1, start, tag)

\* [s.strip() for s in pieces if s.strip()]
RECURSIVE StripNonEmpty(_)
StripNonEmpty(pieces) ==
    IF pieces = <<>> THEN <<>>
    ELSE (IF Strip(Head(pieces)) # <<>> THEN <<Strip(Head(pieces))>> ELSE <<>>)
             \o StripNonEmpty(Tail(pieces))

\* lines 104-105 / 116-117: the parts of the line from index p on
InlineParts(ln, p, tag) ==
    StripNonEmpty(SplitPieces(Strip(SubSeq(ln, p, Len(ln))), 1, 1, tag))

\* RX_POST_TOKENS.search(item): index of the leftmost token, 0 when none
TokenStart(item) ==
    LET hits == {p \in 1..Len(item) : IsToken(item[p])}
    IN  IF hits = {} THEN 0 ELSE MinOf(hits)

\* _split_last_item splitting at a token that starts the item as well
SplitLastItemAtAnyToken(item) ==
    LET p == TokenStart(item)
    IN  IF p > 0
        THEN <<RStrip(SubSeq(item, 1, p - 1)), LStrip(SubSeq(item, p, Len(item)))>>
        ELSE <<Strip(item), <<>>>>

\* _split_last_item splitting at the first token that does not start the item
SplitLastItemAtInnerToken(item) ==
    LET inner == {p \in 2..Len(item) : IsToken(item[p])}
    IN  IF inner # {}
        THEN <<RStrip(SubSeq(item, 1, MinOf(inner) - 1)),
               LStrip(SubSeq(item, MinOf(inner), Len(item)))>>
        ELSE <<Strip(item), <<>>>>

\* lines 40-44
SplitLastItem(item) ==
    LET p == TokenStart(item)
    IN  IF p > 1
        THEN <<RStrip(SubSeq(item, 1, p - 1)), LStrip(SubSeq(item, p, Len(item)))>>
        ELSE <<Strip(item), <<>>>>

CloseTag(tag) == IF tag = "ul" THEN "/ul" ELSE "/ol"

\* lines 65-70; st = [out, in_list, list_tag]
CloseList(st) ==
    IF st.in_list
    THEN [out |-> Append(st.out, El(CloseTag(st.list_tag), <<>>)),
          in_list |-> FALSE, list_tag |-> "none"]
    ELSE st

\* open_list that keeps a list of the other kind open
OpenListKeepingOther(st, tag) ==
    IF ~st.in_list
    THEN [out |-> Append(st.out, El(tag, <<>>)), in_list |-> TRUE, list_tag |-> tag]
    ELSE st

\* lines 72-79
OpenList(st, tag) ==
    LET c == IF st.in_list /\ st.list_tag # tag THEN CloseList(st) ELSE st
    IN  IF ~c.in_list
        THEN [out |-> Append(c.out, El(tag, <<>>)), in_list |-> TRUE, list_tag |-> tag]
        ELSE c

Emit(st, e) == [st EXCEPT !.out = Append(@, e)]

RECURSIVE EmitItems(_, _)
EmitItems(st, items) ==
    IF items = <<>> THEN st
    ELSE EmitItems(Emit(st, El("li", Head(items))), Tail(items))

\* HeadingLevel that does not ask for the space after the '#' characters
HeadingLevelWithoutSpace(ln) ==
    LET Starts(k) == /\ Len(ln) >= k
                     /\ \A q \in 1..k : ln[q] = "#"
    IN  IF Starts(3) THEN 3 ELSE IF Starts(2) THEN 2 ELSE IF Starts(1) THEN 1 ELSE 0

\* ln.startswith("### " / "## " / "# "): the heading level, 0 when none
HeadingLevel(ln) ==
    LET Starts(k) == /\ Len(ln) >= k + 1
                     /\ \A q \in 1..k : ln[q] = "#"
                     /\ ln[k + 1] = " "
    IN  IF Starts(3) THEN 3 ELSE IF Starts(2) THEN 2 ELSE IF Starts(1) THEN 1 ELSE 0

\* InlineKind trying the ordered kind whenever the line holds its signature
InlineKindOrderedFirst(ln) ==
    IF InlineStart(ln, "ol") > 0 THEN "ol"
    ELSE IF InlineStart(ln, "ul") > 0 THEN "ul" ELSE "none"

\* lines 100-103: the kind of inline list tried, "none" when neither starts
InlineKind(ln) ==
    LET u == InlineStart(ln, "ul")
        o == InlineStart(ln, "ol")
    IN  IF u = 0 /\ o = 0 THEN "none"
        ELSE IF u > 0 /\ (o = 0 \/ u <= o) THEN "ul" ELSE "ol"

\* lines 107-113 / 119-125
EmitInlineList(st, ln, tag) ==
    LET p == InlineStart(ln, tag)
        prefix == Strip(SubSeq(ln, 1, p - 1))
        parts == InlineParts(ln, p, tag)
        split == SplitLastItem(parts[Len(parts)])
        items == Append(SubSeq(parts, 1, Len(parts) - 1), split[1])
        s1 == CloseList(st)
        s2 == IF prefix # <<>> THEN Emit(s1, El("p", prefix)) ELSE s1
        s3 == CloseList(EmitItems(OpenList(s2, tag), items))
    IN  IF split[2] # <<>> THEN Emit(s3, El("p", split[2])) ELSE s3

HeadingTag(level) == IF level = 1 THEN "h1" ELSE IF level = 2 THEN "h2" ELSE "h3"

\* ParseLineStep trying the inline list rule before headings and block items
ParseLineStepInlineFirst(st, ln) ==
    LET level == HeadingLevel(ln)
        ulEnd == HeadEnd(ln, "ul")
        olEnd == HeadEnd(ln, "ol")
        kind == InlineKind(ln)
        parts == InlineParts(ln, InlineStart(ln, kind), kind)
    IN  IF Strip(ln) = <<"-", "-", "-">> THEN Emit(CloseList(st), El("hr", <<>>))
        ELSE IF kind # "none" /\ Len(parts) >= MinInlineParts
        THEN EmitInlineList(st, ln, kind)
        ELSE IF level > 0
        THEN Emit(CloseList(st),
                  El(HeadingTag(level), Strip(SubSeq(ln, level + 2, Len(ln)))))
        ELSE IF ulEnd > 0
        THEN Emit(OpenList(st, "ul"), El("li", Strip(SubSeq(ln, ulEnd + 1, Len(ln)))))
        ELSE IF olEnd > 0
        THEN Emit(OpenList(st, "ol"), El("li", Strip(SubSeq(ln, olEnd + 1, Len(ln)))))
        ELSE IF Strip(ln) = <<>> THEN Emit(CloseList(st), El("", <<>>))
        ELSE Emit(CloseList(st), El("p", ln))

\* lines 82-131: one iteration of the loop over the lines
ParseLineStep(st, ln) ==
    LET level == HeadingLevel(ln)
        ulEnd == HeadEnd(ln, "ul")
        olEnd == HeadEnd(ln, "ol")
        kind == InlineKind(ln)
        parts == InlineParts(ln, InlineStart(ln, kind), kind)
    IN  IF Strip(ln) = <<"-", "-", "-">> THEN Emit(CloseList(st), El("hr", <<>>))
        ELSE IF level > 0
        THEN Emit(CloseList(st),
                  El(HeadingTag(level), Strip(SubSeq(ln, level + 2, Len(ln)))))
        ELSE IF ulEnd > 0
        THEN Emit(OpenList(st, "ul"), El("li", Strip(SubSeq(ln, ulEnd + 1, Len(ln)))))
        ELSE IF olEnd > 0
        THEN Emit(OpenList(st, "ol"), El("li", Strip(SubSeq(ln, olEnd + 1, Len(ln)))))
        ELSE IF kind # "none" /\ Len(parts) >= MinInlineParts
        THEN EmitInlineList(st, ln, kind)
        ELSE IF Strip(ln) = <<>> THEN Emit(CloseList(st), El("", <<>>))
        ELSE Emit(CloseList(st), El("p", ln))

\* CollapseBlanks keeping every blank entry
CollapseBlanksKeepingAll(o, prev_blank) == o

\* lines 135-144: runs of blank entries collapse to one
RECURSIVE CollapseBlanks(_, _)
CollapseBlanks(o, prev_blank) ==
    IF o = <<>> THEN <<>>
    ELSE IF Head(o).tag = ""
         THEN (IF prev_blank THEN <<>> ELSE <<Head(o)>>) \o CollapseBlanks(Tail(o), TRUE)
         ELSE <<Head(o)>> \o CollapseBlanks(Tail(o), FALSE)

\* ---------------------------------------------------------------- inputs
MdAlphabet == {"#", "-", "1", ")", "x", " ", "_"}

\* every line of up to MaxLineLen characters
ShortLines == SeqsUpTo(MdAlphabet, MaxLineLen)

\* lines with inline separators: a prefix, then up to MaxParts times a
\* separator and a part
InlinePrefixes == {<<"x">>, <<"#", " ", "x">>, <<"-", " ", "x">>}
InlineSeps == {<<"-", " ">>, <<"1", ")", " ">>}
InlineItems == {<<"x">>, <<"T">>, <<"x", "T">>, <<"T", "x">>, <<"x", " ", "T", "x", "T">>}

RECURSIVE InlineTails(_)
InlineTails(k) ==
    IF k = 0 THEN {<<>>}
    ELSE {<<>>} \cup {sep \o item \o rest :
                         sep \in InlineSeps, item \in InlineItems,
                         rest \in InlineTails(k - 1)}

InlineLines == {pre \o tail : pre \in InlinePrefixes, tail \in InlineTails(MaxParts)}

\* one line of each kind, for documents of several lines
LinePool ==
    { <<"-", " ", "x">>, <<"1", ")", " ", "x">>, <<"x">>, <<>>,
      <<"-", "-", "-">>, <<"#", " ", "x">>,
      <<"x", "-", " ", "x", "-", " ", "x", "-", " ", "x">>,
      <<"x", "1", ")", " ", "x", "1", ")", " ", "x", "1", ")", " ", "x", "T", "x">> }

\* lines with the signatures of both kinds, four separators each, and lines
\* whose last part holds two connective tokens
SampleLines ==
    { <<"x", "-", " ", "x", "-", " ", "x", "-", " ", "T", "x", "T">>,
      <<"x", "-", " ", "x", "-", " ", "x", "-", " ", "x", " ", "T", "x", "T">> } \cup
    { <<"x", "-", " ", "x", "1", ")", " ", "x", "1", ")", " ", "x", "1", ")", " ", "x">>,
      <<"x", "1", ")", " ", "x", "-", " ", "x", "-", " ", "x", "-", " ", "x">>,
      <<"x", "-", " ", "x", "1", ")", " ", "x", "-", " ", "x", "-", " ", "x">>,
      <<"x", "1", ")", " ", "x", "-", " ", "x", "1", ")", " ", "x", "1", ")", " ", "x">> }

MdDocs ==
    {<<ln>> : ln \in ShortLines \cup InlineLines \cup SampleLines}
        \cup UNION {[1..m -> LinePool] : m \in 0..MaxLines}

\* ------------------------------------------------------ md_to_html, stepwise
InitMd ==
    /\ lines \in MdDocs
    /\ line_no = 0
    /\ out = <<>>
    /\ in_list = FALSE
    /\ list_tag = "none"
    /\ html_body = <<>>
    /\ mpc = "lines"
    /\ SegIdle
    /\ ReflowIdle
    /\ MainIdle
    /\ ToolsIdle

\* lines 81-131: the loop body on the next line
ParseLine ==
    /\ mpc = "lines"
    /\ line_no < Len(lines)
    /\ LET st == ParseLineStep([out |-> out, in_list |-> in_list,
                                list_tag |-> list_tag], lines[line_no + 1])
       IN  /\ out' = st.out
           /\ in_list' = st.in_list
           /\ list_tag' = st.list_tag
    /\ line_no' = line_no + 1
    /\ UNCHANGED <<lines, html_body, mpc>>

\* lines 133-146: the last list is closed and the body is assembled
FinishBody ==
    /\ mpc = "lines"
    /\ line_no = Len(lines)
    /\ LET st == CloseList([out |-> out, in_list |-> in_list, list_tag |-> list_tag])
       IN  /\ out' = st.out
           /\ in_list' = st.in_list
           /\ list_tag' = st.list_tag
           /\ html_body' = CollapseBlanks(st.out, FALSE)
    /\ mpc' = "done"
    /\ UNCHANGED <<lines, line_no>>

NextMd ==
    \/ ParseLine /\ UNCHANGED <<segVars, reflowVars, mainVars, toolVars>>
    \/ FinishBody /\ UNCHANGED <<segVars, reflowVars, mainVars, toolVars>>

SpecMd == InitMd /\ [][NextMd]_vars

\* ------------------------------------------------------------ parser claims
\* the line parsed by a step of the loop, and what the step appended to out
Parsing == mpc = "lines" /\ line_no' = line_no + 1
Line == lines[line_no + 1]
Emitted == SubSeq(out', Len(out) + 1, Len(out'))
\* ... without the closing tag of a list that was open
Blocks ==
    IF in_list /\ Emitted # <<>> /\ Emitted[1].tag = CloseTag(list_tag)
    THEN Tail(Emitted) ELSE Emitted

IsHr(ln) == Strip(ln) = <<"-", "-", "-">>
BlockKind(ln) ==
    IF IsHr(ln) \/ HeadingLevel(ln) > 0 THEN "none"
    ELSE IF HeadEnd(ln, "ul") > 0 THEN "ul"
    ELSE IF HeadEnd(ln, "ol") > 0 THEN "ol"
    ELSE "none"
IsBlockItem(ln) == HeadEnd(ln, "ul") > 0 \/ HeadEnd(ln, "ol") > 0
HasInlineSep(ln) == InlineKind(ln) # "none"
PartsOf(ln) == InlineParts(ln, InlineStart(ln, InlineKind(ln)), InlineKind(ln))
PrefixOf(ln) == Strip(SubSeq(ln, 1, InlineStart(ln, InlineKind(ln)) - 1))

\* bs is a prefix paragraph, a list of the kind of the first separator with one
\* item per part, its closing tag and at most one trailing paragraph
IsInlineListOf(bs, ln) ==
    LET n == Len(PartsOf(ln))
    IN  /\ Len(bs) \in {n + 3, n + 4}
        /\ bs[1] = El("p", PrefixOf(ln))
        /\ bs[2] = El(InlineKind(ln), <<>>)
        /\ \A k \in 1..n : bs[2 + k].tag = "li"
        /\ \A k \in 1..(n - 1) : bs[2 + k].text = PartsOf(ln)[k]
        /\ bs[n + 3] = El(CloseTag(InlineKind(ln)), <<>>)
        /\ Len(bs) = n + 4 => bs[n + 4].tag = "p"

\* C7 as stated: a line that is not a block list item and holds an inline
\* separator is parsed as a list iff it has at least 3 parts (prefix paragraph
\* and one item per part); with fewer parts it is one plain paragraph.
C7_InlineListThreshold ==
    [][(Parsing /\ ~IsBlockItem(Line) /\ HasInlineSep(Line)) =>
          IF Len(PartsOf(Line)) >= 3
          THEN IsInlineListOf(Blocks, Line)
          ELSE Blocks = <<El("p", Line)>>]_vars

\* C7 amended: the same for a line that is neither a heading nor a block list
\* item (a heading line with inline separators stays a heading).
C7_InlineListThresholdExceptHeadings ==
    [][(Parsing /\ HeadingLevel(Line) = 0 /\ ~IsBlockItem(Line)
               /\ HasInlineSep(Line)) =>
          IF Len(PartsOf(Line)) >= 3
          THEN IsInlineListOf(Blocks, Line)
          ELSE Blocks = <<El("p", Line)>>]_vars

\* まとめ: - 結論A - 結論B - 結論C  was parsed
C7_Witness ==
    /\ line_no = 1
    /\ lines[1] = <<"x", "-", " ", "x", "-", " ", "x", "-", " ", "x">>
    /\ out = <<El("p", <<"x">>), El("ul", <<>>), El("li", <<"x">>),
               El("li", <<"x">>), El("li", <<"x">>), El("/ul", <<>>)>>

\* the inline list rule applies to the line
InlineRuleApplies(ln) ==
    /\ ~IsHr(ln)
    /\ HeadingLevel(ln) = 0
    /\ ~IsBlockItem(ln)
    /\ HasInlineSep(ln)
    /\ Len(PartsOf(ln)) >= 3

LastPart(ln) == PartsOf(ln)[Len(PartsOf(ln))]
\* the last list item written by the step
FinalItem == Blocks[Len(PartsOf(Line)) + 2]
\* the last part is split at index p: the text before it is the final item,
\* the list is closed and the text from p on is a paragraph after it
SplitAt(p) ==
    /\ FinalItem = El("li", RStrip(SubSeq(LastPart(Line), 1, p - 1)))
    /\ Len(Blocks) = Len(PartsOf(Line)) + 4
    /\ Blocks[Len(Blocks) - 1] = El(CloseTag(InlineKind(Line)), <<>>)
    /\ Blocks[Len(Blocks)] =
           El("p", LStrip(SubSeq(LastPart(Line), p, Len(LastPart(Line)))))
\* the whole last part is the final item, nothing follows the closed list
NotSplit ==
    /\ FinalItem = El("li", LastPart(Line))
    /\ Len(Blocks) = Len(PartsOf(Line)) + 3
    /\ Blocks[Len(Blocks)] = El(CloseTag(InlineKind(Line)), <<>>)

\* C8 as stated: when the inline list rule applies and the last part holds a
\* connective token, the last part is split at the token; otherwise not.
C8_LastPartSplitAtToken ==
    [][(Parsing /\ InlineRuleApplies(Line)) =>
          IF TokenStart(LastPart(Line)) > 0
          THEN SplitAt(TokenStart(LastPart(Line)))
          ELSE NotSplit]_vars

\* C8 amended: the last part is split at its leftmost connective token when
\* that token does not start the part; when the leftmost token starts the part,
\* or there is no token, the whole last part is the final item and no trailing
\* paragraph is emitted.
C8_LastPartSplitAtInnerToken ==
    [][(Parsing /\ InlineRuleApplies(Line)) =>
          IF TokenStart(LastPart(Line)) > 1
          THEN SplitAt(TokenStart(LastPart(Line)))
          ELSE NotSplit]_vars

\* a line whose last part holds a token after other text was parsed
C8_Witness ==
    /\ line_no = 1
    /\ lines[1] = <<"x", "1", ")", " ", "x", "1", ")", " ", "x", "1", ")", " ",
                    "x", "T", "x">>
    /\ out = <<El("p", <<"x">>), El("ol", <<>>), El("li", <<"x">>),
               El("li", <<"x">>), El("li", <<"x">>), El("/ol", <<>>),
               El("p", <<"T", "x">>)>>

\* the line is: whitespace, then k '#', then whitespace (^\s*#{k}\s+)
MatchesHeadingPattern(ln, k) ==
    LET a == SkipSpaces(ln, 1)
    IN  /\ a + k <= Len(ln)
        /\ \A q \in a..(a + k - 1) : ln[q] = "#"
        /\ IsSpace(ln[a + k])
PatternText(ln, k) == Strip(SubSeq(ln, SkipSpaces(ln, 1) + k + 1, Len(ln)))

\* the line starts with k '#' and one half-width space
StartsWithHeading(ln, k) ==
    /\ Len(ln) >= k + 1
    /\ \A q \in 1..k : ln[q] = "#"
    /\ ln[k + 1] = " "

IsHeadingTag(t) == t \in {"h1", "h2", "h3"}

\* C9 as stated: optional whitespace, one to three '#', whitespace, text is a
\* heading of that level with that text, and closes an open list.
C9_HeadingPattern ==
    [][Parsing =>
          \A k \in 1..3 :
              (MatchesHeadingPattern(Line, k) /\ PatternText(Line, k) # <<>>) =>
              /\ Blocks = <<El(HeadingTag(k), PatternText(Line, k))>>
              /\ ~in_list']_vars

\* C9 amended: a line is a heading of level k (1..3) iff it starts, with no
\* whitespace before, with exactly k '#' followed by a half-width space; it
\* carries the rest of the line, stripped, and closes an open list; a '### '
\* line is never a level-1 or level-2 heading.
C9_HeadingAtLineStart ==
    [][Parsing =>
          /\ \A k \in 1..3 : StartsWithHeading(Line, k) =>
                /\ Blocks = <<El(HeadingTag(k),
                                 Strip(SubSeq(Line, k + 2, Len(Line))))>>
                /\ in_list => Emitted[1] = El(CloseTag(list_tag), <<>>)
                /\ ~in_list'
          /\ (\A k \in 1..3 : ~StartsWithHeading(Line, k)) =>
                \A e \in 1..Len(Emitted) : ~IsHeadingTag(Emitted[e].tag)]_vars

\* a heading line closed an open list
C9_Witness ==
    /\ line_no = 2
    /\ lines[1] = <<"-", " ", "x">>
    /\ lines[2] = <<"#", " ", "x">>
    /\ out = <<El("ul", <<>>), El("li", <<"x">>), El("/ul", <<>>),
               El("h1", <<"x">>)>>

\* the kind of the list left open by o, "none" when no list is open
OpenKindAt(o) ==
    LET marks == {k \in 1..Len(o) : o[k].tag \in {"ul", "ol", "/ul", "/ol"}}
    IN  IF marks = {} \/ o[MaxOf(marks)].tag \in {"/ul", "/ol"} THEN "none"
        ELSE o[MaxOf(marks)].tag

\* lists are opened at the top level only, hold at least one item, are closed
\* by the tag of their kind; items are inside lists, other blocks outside
RECURSIVE WellNested(_, _)
WellNested(o, open) ==
    IF o = <<>> THEN TRUE
    ELSE IF Head(o).tag \in {"ul", "ol"}
         THEN /\ open = "none"
              /\ Len(o) >= 2 /\ o[2].tag = "li"
              /\ WellNested(Tail(o), Head(o).tag)
    ELSE IF Head(o).tag \in {"/ul", "/ol"}
         THEN /\ open # "none"
              /\ Head(o).tag = CloseTag(open)
              /\ WellNested(Tail(o), "none")
    ELSE IF Head(o).tag = "li"
         THEN open # "none" /\ WellNested(Tail(o), open)
    ELSE open = "none" /\ WellNested(Tail(o), open)

ListDiscipline ==
    /\ WellNested(out, "none")
    /\ in_list <=> OpenKindAt(out) # "none"
    /\ list_tag = OpenKindAt(out)
    /\ mpc = "done" => ~in_list /\ WellNested(html_body, "none")
                                /\ OpenKindAt(html_body) = "none"

\* C10: at most one list is open; a block item continues an open list of its
\* kind and otherwise closes the open list and opens one of its kind; every
\* other line closes the open list; lists are balanced, not nested, not empty,
\* items lie in a list of their marker's kind; no list is open at the end.
C10_ListDiscipline ==
    [][/\ ListDiscipline'
       /\ (Parsing /\ BlockKind(Line) # "none") =>
             /\ Emitted[Len(Emitted)].tag = "li"
             /\ in_list' /\ list_tag' = BlockKind(Line)
             /\ OpenKindAt(out') = BlockKind(Line)
             /\ (in_list /\ list_tag = BlockKind(Line)) => Len(Emitted) = 1
             /\ (in_list /\ list_tag # BlockKind(Line)) =>
                   /\ Len(Emitted) = 3
                   /\ Emitted[1] = El(CloseTag(list_tag), <<>>)
                   /\ Emitted[2] = El(BlockKind(Line), <<>>)
             /\ ~in_list =>
                   /\ Len(Emitted) = 2
                   /\ Emitted[1] = El(BlockKind(Line), <<>>)
       /\ (Parsing /\ BlockKind(Line) = "none") =>
             /\ ~in_list'
             /\ in_list => Emitted[1] = El(CloseTag(list_tag), <<>>)
       /\ (Parsing /\ InlineRuleApplies(Line)) =>
             \A k \in 1..Len(Emitted) :
                 Emitted[k].tag \in {"ul", "ol"} => Emitted[k].tag = InlineKind(Line)
      ]_vars

\* an unordered item, an ordered item and a paragraph were parsed in a row
C10_Witness ==
    /\ mpc = "done"
    /\ lines = <<<<"-", " ", "x">>, <<"1", ")", " ", "x">>, <<"x">>>>
    /\ out = <<El("ul", <<>>), El("li", <<"x">>), El("/ul", <<>>),
               El("ol", <<>>), El("li", <<"x">>), El("/ol", <<>>),
               El("p", <<"x">>)>>

\* the Blank entry (an empty string of out)
BlankEl == El("", <<>>)
IsBlankEl(e) == e.tag = ""
NotBlankEl(e) == e.tag # ""
\* number of maximal runs of Blank entries of o
BlankRuns(o) ==
    Cardinality({k \in 1..Len(o) :
                    IsBlankEl(o[k]) /\ (k = 1 \/ ~IsBlankEl(o[k - 1]))})

\* C11: a blank (empty or whitespace-only) line closes the open list and
\* emits one Blank; the final body has no two adjacent Blanks, one Blank for
\* every run of Blanks, and its non-blank entries are those of the block
\* sequence in the same order.
C11_BlankHandling ==
    [][/\ (Parsing /\ Strip(Line) = <<>>) =>
             /\ Blocks = <<BlankEl>>
             /\ in_list => Emitted = <<El(CloseTag(list_tag), <<>>), BlankEl>>
             /\ ~in_list'
       /\ (mpc = "lines" /\ mpc' = "done") =>
             /\ \A k \in 1..(Len(html_body') - 1) :
                    ~(IsBlankEl(html_body'[k]) /\ IsBlankEl(html_body'[k + 1]))
             /\ SelectSeq(html_body', NotBlankEl) = SelectSeq(out', NotBlankEl)
             /\ Len(html_body') = Len(SelectSeq(out', NotBlankEl)) + BlankRuns(out')
      ]_vars

\* a list item followed by two blank lines: the list was closed and the two
\* Blanks became one
C11_Witness ==
    /\ mpc = "done"
    /\ lines = <<<<"-", " ", "x">>, <<>>, <<>>>>
    /\ out = <<El("ul", <<>>), El("li", <<"x">>), El("/ul", <<>>), BlankEl, BlankEl>>
    /\ html_body = <<El("ul", <<>>), El("li", <<"x">>), El("/ul", <<>>), BlankEl>>

\* the rule that handles a line: the first that applies
RuleOf(ln) ==
    IF IsHr(ln) THEN "hr"
    ELSE IF \E k \in 1..3 : StartsWithHeading(ln, k) THEN "heading"
    ELSE IF HeadEnd(ln, "ul") > 0 THEN "ul"
    ELSE IF HeadEnd(ln, "ol") > 0 THEN "ol"
    ELSE IF HasInlineSep(ln) /\ Len(PartsOf(ln)) >= 3 THEN "inline"
    ELSE IF Strip(ln) = <<>> THEN "blank"
    ELSE "paragraph"

\* the entries written for a line are those of one rule
HandledBy(rule) ==
    IF rule = "hr" THEN Blocks = <<El("hr", <<>>)>>
    ELSE IF rule = "heading"
    THEN /\ Len(Blocks) = 1
         /\ \E k \in 1..3 :
                /\ StartsWithHeading(Line, k)
                /\ Blocks[1] = El(HeadingTag(k), Strip(SubSeq(Line, k + 2, Len(Line))))
    ELSE IF rule \in {"ul", "ol"}
    THEN /\ Emitted[Len(Emitted)] =
                El("li", Strip(SubSeq(Line, HeadEnd(Line, rule) + 1, Len(Line))))
         /\ Cardinality({k \in 1..Len(Emitted) : Emitted[k].tag = "li"}) = 1
         /\ \A k \in 1..Len(Emitted) : Emitted[k].tag \notin {"p", "h1", "h2", "h3", "hr", ""}
         /\ list_tag' = rule
    ELSE IF rule = "inline" THEN IsInlineListOf(Blocks, Line)
    ELSE IF rule = "blank" THEN Blocks = <<BlankEl>>
    ELSE Blocks = <<El("p", Line)>>

\* C12: every line is handled, by the first rule that applies in the order
\* hr, heading, block unordered item, block ordered item, inline list (with
\* at least 3 parts), blank, paragraph; a line no earlier rule takes is one
\* paragraph holding the whole line; every document is parsed to its end.
C12_RuleDispatch ==
    [][/\ Parsing => HandledBy(RuleOf(Line))
       /\ (mpc = "lines" /\ mpc' = "done") => line_no = Len(lines)
       /\ (mpc = "lines" /\ line_no < Len(lines)) => Parsing
      ]_vars

\* a heading line with ' - ' separators became a heading
C12_Witness ==
    /\ line_no = 1
    /\ lines[1] = <<"#", " ", "x", "-", " ", "x", "-", " ", "x", "-", " ", "x">>
    /\ out = <<El("h1", <<"x", "-", " ", "x", "-", " ", "x", "-", " ", "x">>)>>

\* the signatures of both kinds of inline list stand in the line
HasBothKinds(ln) == InlineStart(ln, "ul") > 0 /\ InlineStart(ln, "ol") > 0
\* the kind whose first signature starts earliest, the unordered one on a tie
EarliestKind(ln) ==
    IF InlineStart(ln, "ul") <= InlineStart(ln, "ol") THEN "ul" ELSE "ol"
OtherKind(ln) == IF EarliestKind(ln) = "ul" THEN "ol" ELSE "ul"
\* the parts the separator of the given kind cuts from the kind's first signature on
KindParts(ln, kind) == InlineParts(ln, InlineStart(ln, kind), kind)
\* bs holds a list of the earliest kind with one item per part and no list of
\* the other kind
IsListOfEarliestKind(bs, ln) ==
    LET IsItem(e) == e.tag = "li"
    IN  /\ \E k \in 1..Len(bs) : bs[k] = El(EarliestKind(ln), <<>>)
        /\ \A k \in 1..Len(bs) : bs[k].tag # OtherKind(ln)
        /\ Len(SelectSeq(bs, IsItem)) = Len(KindParts(ln, EarliestKind(ln)))

\* C23 as stated: a line that is not a block list item and holds the
\* signatures of both kinds is split by the kind whose first signature starts
\* earliest only: a list of that kind with 3 or more parts, one plain
\* paragraph with fewer, whatever the other kind's separator would give.
C23_EarliestKindOnly ==
    [][(Parsing /\ ~IsBlockItem(Line) /\ HasBothKinds(Line)) =>
          IF Len(KindParts(Line, EarliestKind(Line))) >= 3
          THEN IsListOfEarliestKind(Blocks, Line)
          ELSE Blocks = <<El("p", Line)>>]_vars

\* C23 amended: the same for a line that is neither a heading nor a block
\* list item (a heading line stays a heading whatever signatures it holds).
C23_EarliestKindOnlyExceptHeadings ==
    [][(Parsing /\ HeadingLevel(Line) = 0 /\ ~IsBlockItem(Line)
               /\ HasBothKinds(Line)) =>
          IF Len(KindParts(Line, EarliestKind(Line))) >= 3
          THEN IsListOfEarliestKind(Blocks, Line)
          ELSE Blocks = <<El("p", Line)>>]_vars

\* the line "x- x1) x1) x1) x" came out as one paragraph: the unordered kind
\* starts first and gives one part, the ordered kind would give three
C23_Witness ==
    /\ line_no = 1
    /\ lines[1] = <<"x", "-", " ", "x", "1", ")", " ", "x", "1", ")", " ", "x",
                    "1", ")", " ", "x">>
    /\ Len(KindParts(lines[1], "ul")) < 3
    /\ Len(KindParts(lines[1], "ol")) >= 3
    /\ out = <<El("p", lines[1])>>

\* the connective tokens of the last part of the line
TokensOf(part) == {k \in 1..Len(part) : IsToken(part[k])}
\* the step wrote a paragraph after the closed list
HasTrailing == Len(Blocks) = Len(PartsOf(Line)) + 4
Trailing == Blocks[Len(Blocks)].text

\* C24: the last part of an inline list is split at its leftmost connective
\* token, and only when that token does not start the part (a later token
\* does not split it then); after a split the final item is not empty, the
\* trailing text begins with the token and the item, the whitespace before
\* the token and the trailing text make up the last part, no character lost.
C24_SplitLastItem ==
    [][(Parsing /\ InlineRuleApplies(Line)) =>
          LET part == LastPart(Line)
              toks == TokensOf(part)
          IN  /\ HasTrailing <=> (toks # {} /\ MinOf(toks) > 1)
              /\ ~HasTrailing => FinalItem = El("li", part)
              /\ HasTrailing =>
                     /\ FinalItem.tag = "li"
                     /\ FinalItem.text # <<>>
                     /\ IsToken(Trailing[1])
                     /\ Trailing = SubSeq(part, MinOf(toks), Len(part))
                     /\ \E a \in 1..(MinOf(toks) - 1) :
                            /\ FinalItem.text = SubSeq(part, 1, a)
                            /\ \A k \in (a + 1)..(MinOf(toks) - 1) :
                                   IsSpace(part[k])]_vars

\* the last part "TxT" begins with a token and holds another: it is the
\* final item, whole, and nothing follows the list
C24_Witness ==
    /\ line_no = 1
    /\ lines[1] = <<"x", "-", " ", "x", "-", " ", "x", "-", " ", "T", "x", "T">>
    /\ out = <<El("p", <<"x">>), El("ul", <<>>), El("li", <<"x">>),
               El("li", <<"x">>), El("li", <<"T", "x", "T">>), El("/ul", <<>>)>>

\* ====================================================== rhythmic_reflow_html
\* The document tree is the sequence of the children of the root (soup.body);
\* a node is a record [tag, text, kids], a text node has the tag "#text".
\* A reference to a child of a container is its index among the children.
TextNode(t) == [tag |-> "#text", text |-> t, kids |-> <<>>]
TagNode(name, kids) == [tag |-> name, text |-> <<>>, kids |-> kids]
IsTag(nd) == nd.tag # "#text"

INLINE_OK == {"b", "strong", "i", "em", "span", "a", "br", "u", "s", "small",
              "mark", "sub", "sup", "code"}
SKIP_TAGS == {"code", "pre", "table", "thead", "tbody", "tr", "th", "td",
              "ul", "ol", "li", "blockquote"}
HEADING_TAGS == {"h1", "h2", "h3", "h4", "h5", "h6"}

\* Tag.get_text(): the text nodes below nd, concatenated in document order
RECURSIVE GetText(_)
GetText(nd) ==
    IF ~IsTag(nd) THEN nd.text
    ELSE Flatten([k \in 1..Len(nd.kids) |-> GetText(nd.kids[k])])

\* lines 219-225
IsInlineOnly(nd) ==
    /\ IsTag(nd)
    /\ \A k \in 1..Len(nd.kids) :
           IsTag(nd.kids[k]) => nd.kids[k].tag \in INLINE_OK

\* IsTextParagraph taking any tag with inline content
IsTextParagraphAnyTag(nd) == IsTag(nd) /\ IsInlineOnly(nd)

\* lines 227-234
IsTextParagraph(nd) ==
    /\ IsTag(nd)
    /\ nd.tag \notin SKIP_TAGS /\ nd.tag \notin HEADING_TAGS
    /\ nd.tag \in {"p", "div"}
    /\ IsInlineOnly(nd)

\* Walks walking into every tag
WalksEverything(child) == TRUE

\* line 251: the tags find_and_process_blocks is called on
Walks(child) == child.tag \notin SKIP_TAGS /\ child.tag \notin HEADING_TAGS

\* lines 174-187: the iterations of the scan on the characters lo+1..hi of t,
\* in order: the first half is run to its end, the second half starts from
\* the state it leaves
RECURSIVE ScanAll(_, _, _, _)
ScanAll(st, t, lo, hi) ==
    IF lo >= hi THEN st
    ELSE IF hi = lo + 1 THEN ScanStep(st, t, lo)
    ELSE LET half == ScanAll(st, t, lo, (lo + hi) \div 2)
         IN  IF half.in_quote \in BOOLEAN
             THEN ScanAll(half, t, (lo + hi) \div 2, hi)
             ELSE half

\* lines 166-198: the cleaned sentences of a text
CleanedSentences(s) ==
    LET t == NormalizeText(s)
        st == ScanAll([sentences |-> <<>>, current |-> <<>>,
                       in_quote |-> FALSE], t, 0, Len(t))
    IN  CleanAll(FlushCurrent(st.sentences, st.current))

\* ReflowParagraphText without the fallback of lines 200-201
ReflowParagraphTextNoFallback(s, n) == MakeParas(CleanedSentences(s), n)

\* lines 164-208: _reflow_paragraph_text as one call
ReflowParagraphText(s, n) ==
    LET cl == CleanedSentences(s)
    IN  IF cl = <<>>
        THEN (IF Strip(s) # <<>> THEN <<Strip(s)>> ELSE <<>>)
        ELSE MakeParas(cl, n)

\* lines 263-268: the text of the members of a block, each with its newline
\* runs removed and stripped, concatenated
CombinedText(kids, block) ==
    Flatten([b \in 1..Len(block) |->
                Strip(DropNewlineRuns(GetText(kids[block[b]]), TRUE))])

\* lines 286-288: <p><br></p>
Spacer == TagNode("p", <<TagNode("br", <<>>)>>)
\* NewParagraph wrapping the text in a <span>
NewParagraphWithSpan(t) == TagNode("p", <<TagNode("span", <<TextNode(t)>>)>>)

\* lines 282-283: <p>para_text</p>
NewParagraph(t) == TagNode("p", <<TextNode(t)>>)

\* NewNodes with a spacer after every paragraph, the last one too
NewNodesSpacerAfterEach(ps) ==
    [q \in 1..(2 * Len(ps)) |->
        IF q % 2 = 1 THEN NewParagraph(ps[(q + 1) \div 2]) ELSE Spacer]

\* lines 281-289: the nodes inserted for the paragraphs ps, a spacer after
\* each paragraph but the last
NewNodes(ps) ==
    [q \in 1..(2 * Len(ps) - 1) |->
        IF q % 2 = 1 THEN NewParagraph(ps[(q + 1) \div 2]) ELSE Spacer]

\* KeepsBlock replacing every block, the empty ones by nothing
KeepsBlockNever(combined_text, ps) == FALSE

\* lines 270-276: the block is passed over, its tags left where they are
KeepsBlock(combined_text, ps) == combined_text = <<>> \/ ps = <<>>

\* the children left when the members of block are taken out from index lo on
Remaining(kids, block, lo) ==
    LET Stays(k) == k >= lo /\ \A b \in 1..Len(block) : block[b] # k
        idx == SelectSeq([k \in 1..Len(kids) |-> k], Stays)
    IN  [k \in 1..Len(idx) |-> kids[idx[k]]]

\* ReplaceBlock inserting the new nodes in front of the container's children
ReplaceBlockAtFront(kids, block, new) ==
    new \o Remaining(kids, block, 1)

\* lines 280-292: the new nodes are inserted before the first member of the
\* block and every member is extracted
ReplaceBlock(kids, block, new) ==
    SubSeq(kids, 1, block[1] - 1) \o new \o Remaining(kids, block, block[1])

\* the references of the blocks still to process after the container's
\* children moved by delta places
Moved(blocks, delta) ==
    [b \in 1..Len(blocks) |->
        [k \in 1..Len(blocks[b]) |-> blocks[b][k] + delta]]

\* container.children of the container reached from the root by path
RECURSIVE KidsAt(_, _)
KidsAt(t, path) ==
    IF path = <<>> THEN t ELSE KidsAt(t[Head(path)].kids, Tail(path))

RECURSIVE SetKidsAt(_, _, _)
SetKidsAt(t, path, new) ==
    IF path = <<>> THEN new
    ELSE [t EXCEPT ![Head(path)].kids = SetKidsAt(@, Tail(path), new)]

\* lines 236-240: a call of find_and_process_blocks(container)
Frame(path) ==
    [path |-> path, idx |-> 0, current_block |-> <<>>,
     blocks_to_process |-> <<>>, phase |-> "collect"]

\* FlushBlock leaving the flushed members in current_block
FlushBlockKeepingCurrent(f) ==
    IF f.current_block # <<>>
    THEN [f EXCEPT !.blocks_to_process = Append(@, f.current_block)]
    ELSE f

\* lines 247-249 and 254-255
FlushBlock(f) ==
    IF f.current_block # <<>>
    THEN [f EXCEPT !.blocks_to_process = Append(@, f.current_block),
                   !.current_block = <<>>]
    ELSE f

Top == frames[Len(frames)]
TopKids == KidsAt(soup, Top.path)

\* ---------------------------------------------------------------- inputs
\* これは文。これも文  /  five sentences  /  a text with a line break and a
\* sentence that is only a stray 。
TwoSentences == <<"x", ".", "x">>
FiveSentences == <<"x", "!", "x", "!", "x", "!", "x", "!", "x">>
BrokenLine == <<"x", "!", ".", "x", " ", "\n", " ", "x">>

\* <p class="..">x。<a href="..">x</a><br/></p>: a paragraph with an attribute
\* and inline elements, one of them with an attribute
LinkParagraph ==
    [tag |-> "p", text |-> <<>>, attrs |-> {"class"},
     kids |-> <<TextNode(<<"x", ".">>),
                [tag |-> "a", text |-> <<>>, attrs |-> {"href"},
                 kids |-> <<TextNode(<<"x">>)>>],
                TagNode("br", <<>>)>>]

NodePool ==
    { NewParagraph(FiveSentences),
      NewParagraph(TwoSentences),
      NewParagraph(BrokenLine),
      TagNode("p", <<TextNode(<<" ">>)>>),
      TagNode("hr", <<>>),
      TagNode("h2", <<TextNode(TwoSentences)>>),
      TagNode("ul", <<TagNode("li", <<TextNode(TwoSentences)>>),
                      TagNode("li", <<NewParagraph(TwoSentences)>>)>>),
      TagNode("div", <<NewParagraph(<<",", "x">>),
                       TagNode("h3", <<TextNode(<<"x">>)>>),
                       NewParagraph(TwoSentences),
                       TagNode("hr", <<>>),
                       TagNode("p", <<TextNode(<<"x">>),
                                      TagNode("code", <<TextNode(<<"!", "x">>)>>)>>),
                       TagNode("blockquote", <<NewParagraph(TwoSentences)>>),
                       NewParagraph(<<"x">>),
                       TextNode(<<"\n">>),
                       NewParagraph(<<",", "x", ".">>),
                       TagNode("hr", <<>>),
                       NewParagraph(<<".">>),
                       NewParagraph(<<".">>),
                       TagNode("hr", <<>>),
                       NewParagraph(<<"]", ".", ".", "x">>),
                       TagNode("hr", <<>>),
                       LinkParagraph>>) }

Documents == SeqsUpTo(NodePool, MaxNodes)

\* ------------------------------------------- rhythmic_reflow_html, stepwise
\* lines 212-217 and 294
InitReflow ==
    /\ html_text \in Documents
    /\ per_para \in 1..MaxPerPara
    /\ soup = html_text
    /\ frames = <<Frame(<<>>)>>
    /\ blocks_processed = 0
    /\ total_new_paras = 0
    /\ rpc = "walk"
    /\ SegIdle
    /\ MdIdle
    /\ MainIdle
    /\ ToolsIdle

\* lines 242-252: one iteration of the loop over list(container.children)
VisitChild ==
    /\ rpc = "walk"
    /\ Top.phase = "collect"
    /\ Top.idx < Len(TopKids)
    /\ LET child == TopKids[Top.idx + 1]
           seen == [Top EXCEPT !.idx = @ + 1]
       IN  IF ~IsTag(child)
           THEN frames' = [frames EXCEPT ![Len(frames)] = seen]
           ELSE IF IsTextParagraph(child)
           THEN frames' = [frames EXCEPT ![Len(frames)] =
                              [seen EXCEPT !.current_block = Append(@, Top.idx + 1)]]
           ELSE IF Walks(child)
           THEN frames' = Append([frames EXCEPT ![Len(frames)] = FlushBlock(seen)],
                                 Frame(Append(Top.path, Top.idx + 1)))
           ELSE frames' = [frames EXCEPT ![Len(frames)] = FlushBlock(seen)]
    /\ UNCHANGED <<html_text, per_para, soup, blocks_processed,
                   total_new_paras, rpc>>

\* lines 254-255: the end of the loop over the children
EndCollect ==
    /\ rpc = "walk"
    /\ Top.phase = "collect"
    /\ Top.idx = Len(TopKids)
    /\ frames' = [frames EXCEPT ![Len(frames)] =
                     [FlushBlock(Top) EXCEPT !.phase = "process"]]
    /\ UNCHANGED <<html_text, per_para, soup, blocks_processed,
                   total_new_paras, rpc>>

\* lines 257-292: one iteration of the loop over blocks_to_process
ProcessBlock ==
    /\ rpc = "walk"
    /\ Top.phase = "process"
    /\ Top.blocks_to_process # <<>>
    /\ blocks_processed' = blocks_processed + 1
    /\ LET block == Head(Top.blocks_to_process)
           combined_text == CombinedText(TopKids, block)
           ps == ReflowParagraphText(combined_text, per_para)
           new == NewNodes(ps)
       IN  IF KeepsBlock(combined_text, ps)
           THEN /\ frames' = [frames EXCEPT ![Len(frames)].blocks_to_process = Tail(@)]
                /\ UNCHANGED <<soup, total_new_paras>>
           ELSE /\ total_new_paras' = total_new_paras + Len(ps)
                /\ soup' = SetKidsAt(soup, Top.path,
                                     ReplaceBlock(TopKids, block, new))
                /\ frames' = [frames EXCEPT ![Len(frames)].blocks_to_process =
                                 Moved(Tail(@), Len(new) - Len(block))]
    /\ UNCHANGED <<html_text, per_para, rpc>>

\* the call returns; the outermost call is followed by line 298
Return ==
    /\ rpc = "walk"
    /\ Top.phase = "process"
    /\ Top.blocks_to_process = <<>>
    /\ frames' = SubSeq(frames, 1, Len(frames) - 1)
    /\ rpc' = IF Len(frames) = 1 THEN "done" ELSE rpc
    /\ UNCHANGED <<html_text, per_para, soup, blocks_processed, total_new_paras>>

NextReflow ==
    \/ VisitChild /\ UNCHANGED <<segVars, mdVars, mainVars, toolVars>>
    \/ EndCollect /\ UNCHANGED <<segVars, mdVars, mainVars, toolVars>>
    \/ ProcessBlock /\ UNCHANGED <<segVars, mdVars, mainVars, toolVars>>
    \/ Return /\ UNCHANGED <<segVars, mdVars, mainVars, toolVars>>

SpecReflow == InitReflow /\ [][NextReflow]_vars

\* ------------------------------------------------------------------- main
\* An HTML text is a sequence of tokens: characters, tags ("<p>", "</p>",
\* "<strong>", "<br/>", ...), the entity "&amp;" and the two sentinels of lines
\* 692-694.  A Markdown line may hold "*" and "&" besides the characters of
\* the parser and of the segmentation.  Of the page md_to_html returns, the
\* text between <body> and </body> is kept.
\* the sentinels, written here with ASCII brackets
BOLDSTART == "[BOLDSTART]"
BOLDEND == "[BOLDEND]"

\* html.escape: of the characters it replaces the inputs hold '&' only
Escape(s) == [k \in 1..Len(s) |-> IF s[k] = "&" THEN "&amp;" ELSE s[k]]
\* the parser's entity decoding
Unescape(s) == [k \in 1..Len(s) |-> IF s[k] = "&amp;" THEN "&" ELSE s[k]]

\* "**" at index p
IsBoldMark(t, p) == p + 1 <= Len(t) /\ t[p] = "*" /\ t[p + 1] = "*"

\* BOLD_RX = \*\*(.+?)\*\*: the index of the closing "**" of a match that
\* starts at p, the nearest one that leaves at least one character inside
BoldClose(t, p) ==
    LET ends == {q \in (p + 3)..Len(t) : IsBoldMark(t, q)}
    IN  IF IsBoldMark(t, p) /\ ends # {} THEN MinOf(ends) ELSE 0

\* lines 46-56: render_inline from index pos on
RECURSIVE RenderInlineFrom(_, _)
RenderInlineFrom(t, pos) ==
    LET starts == {p \in pos..Len(t) : BoldClose(t, p) # 0}
    IN  IF starts = {} THEN Escape(SubSeq(t, pos, Len(t)))
        ELSE LET a == MinOf(starts)
                 b == BoldClose(t, a)
             IN  Escape(SubSeq(t, pos, a - 1)) \o <<"<strong>">>
                     \o Escape(SubSeq(t, a + 2, b - 1)) \o <<"</strong>">>
                     \o RenderInlineFrom(t, b + 2)

RenderInline(t) == RenderInlineFrom(t, 1)

\* lines 81-133: the loop over the lines and the final close_list
RECURSIVE ParseLines(_, _)
ParseLines(st, lns) ==
    IF lns = <<>> THEN CloseList(st)
    ELSE ParseLines(ParseLineStep(st, Head(lns)), Tail(lns))

OpenTag(tag) == "<" \o tag \o ">"
EndTag(tag) == "</" \o tag \o ">"

\* the string appended to out for an entry (lines 85-131; "" for a blank)
EntryHtml(e) ==
    IF e.tag = "" THEN <<>>
    ELSE IF e.tag \in {"hr", "ul", "ol", "/ul", "/ol"} THEN <<OpenTag(e.tag)>>
    ELSE <<OpenTag(e.tag)>> \o RenderInline(e.text) \o <<EndTag(e.tag)>>

\* line 146: "\n".join(html_body)
JoinLines(entries) ==
    Flatten([k \in 1..(2 * Len(entries) - 1) |->
                IF k % 2 = 1 THEN entries[(k + 1) \div 2] ELSE <<"\n">>])

\* lines 58-157: md_to_html(md), the text between <body> and </body>
MdToHtml(md) ==
    LET st == ParseLines([out |-> <<>>, in_list |-> FALSE, list_tag |-> "none"], md)
        body == CollapseBlanks(st.out, FALSE)
    IN  JoinLines([k \in 1..Len(body) |-> EntryHtml(body[k])])

\* str.replace(a, b) for single tokens
Replace(h, a, b) == [k \in 1..Len(h) |-> IF h[k] = a THEN b ELSE h[k]]

\* the elements md_to_html writes with an end tag
ElementNames == {"p", "h1", "h2", "h3", "ul", "ol", "li"}
IsTagToken(c) ==
    c = "<hr>" \/ \E t \in ElementNames : c = OpenTag(t) \/ c = EndTag(t)

\* lines 212-213: the children parsed from the tokens lo..hi of a body written
\* by md_to_html (every element closed, <hr> void, none inside one of its kind)
RECURSIVE ParseNodes(_, _, _)
ParseNodes(h, lo, hi) ==
    IF lo > hi THEN <<>>
    ELSE IF h[lo] = "<hr>"
    THEN <<TagNode("hr", <<>>)>> \o ParseNodes(h, lo + 1, hi)
    ELSE IF \E t \in ElementNames : h[lo] = OpenTag(t)
    THEN LET t == CHOOSE t \in ElementNames : h[lo] = OpenTag(t)
             c == MinOf({q \in (lo + 1)..hi : h[q] = EndTag(t)})
         IN  <<TagNode(t, ParseNodes(h, lo + 1, c - 1))>> \o ParseNodes(h, c + 1, hi)
    ELSE LET tags == {q \in lo..hi : IsTagToken(h[q])}
             e == IF tags = {} THEN hi + 1 ELSE MinOf(tags)
         IN  <<TextNode(Unescape(SubSeq(h, lo, e - 1)))>> \o ParseNodes(h, e, hi)

ParseBody(h) == ParseNodes(h, 1, Len(h))

\* lines 242-255: the blocks of a container, each the indices of the text
\* paragraphs between two tags that are not text paragraphs
BlocksOf(kids) ==
    LET Breaks(k) == IsTag(kids[k]) /\ ~IsTextParagraph(kids[k])
        GroupOf(k) == Cardinality({q \in 1..k : Breaks(q)})
        Used(g) == \E k \in 1..Len(kids) : IsTextParagraph(kids[k]) /\ GroupOf(k) = g
        groups == SelectSeq([g \in 1..(Len(kids) + 1) |-> g - 1], Used)
    IN  [b \in 1..Len(groups) |->
            LET InGroup(k) == IsTextParagraph(kids[k]) /\ GroupOf(k) = groups[b]
            IN  SelectSeq([k \in 1..Len(kids) |-> k], InGroup)]

\* lines 257-292 for one block
ProcessOneBlock(kids, block, n) ==
    LET combined_text == CombinedText(kids, block)
        ps == ReflowParagraphText(combined_text, n)
    IN  IF KeepsBlock(combined_text, ps) THEN kids
        ELSE ReplaceBlock(kids, block, NewNodes(ps))

\* lines 257-292 for the blocks 1..j; a block's replacement moves the blocks
\* behind it only, so the last block is replaced first here
RECURSIVE ProcessBlocks(_, _, _, _)
ProcessBlocks(kids, blocks, j, n) ==
    IF j = 0 THEN kids
    ELSE ProcessBlocks(ProcessOneBlock(kids, blocks[j], n), blocks, j - 1, n)

\* lines 236-292: find_and_process_blocks as one call, on the children of the
\* container
RECURSIVE FindAndProcessBlocks(_, _)
FindAndProcessBlocks(kids, n) ==
    LET walked == [k \in 1..Len(kids) |->
                      IF IsTag(kids[k]) /\ ~IsTextParagraph(kids[k]) /\ Walks(kids[k])
                      THEN [kids[k] EXCEPT !.kids = FindAndProcessBlocks(@, n)]
                      ELSE kids[k]]
        blocks == BlocksOf(kids)
    IN  ProcessBlocks(walked, blocks, Len(blocks), n)

\* NodeHtml writing the text as it is, '&' unescaped
RECURSIVE NodeHtmlUnescaped(_)
NodeHtmlUnescaped(nd) ==
    IF ~IsTag(nd) THEN nd.text
    ELSE IF nd.tag \in {"br", "hr"} THEN <<"<" \o nd.tag \o "/>">>
    ELSE <<OpenTag(nd.tag)>>
             \o Flatten([k \in 1..Len(nd.kids) |-> NodeHtmlUnescaped(nd.kids[k])])
             \o <<EndTag(nd.tag)>>

\* line 298: str(soup), for one node
RECURSIVE NodeHtml(_)
NodeHtml(nd) ==
    IF ~IsTag(nd) THEN Escape(nd.text)
    ELSE IF nd.tag \in {"br", "hr"} THEN <<"<" \o nd.tag \o "/>">>
    ELSE <<OpenTag(nd.tag)>>
             \o Flatten([k \in 1..Len(nd.kids) |-> NodeHtml(nd.kids[k])])
             \o <<EndTag(nd.tag)>>

Serialize(kids) == Flatten([k \in 1..Len(kids) |-> NodeHtml(kids[k])])

\* lines 210-298: rhythmic_reflow_html(html_text, n) on such a body
RhythmicReflowHtml(h, n) == Serialize(FindAndProcessBlocks(ParseBody(h), n))

\* ---------------------------------------------------------------- inputs
BoldPre == {<<>>, <<"x">>, <<"x", ".">>, <<",">>}
BoldInner == {<<"x">>, <<"x", "&">>, <<" ", "x", " ">>, <<"[", "x", "]">>,
              <<",", "x">>, <<"x", "]", ".">>, <<"x", ".", "x">>,
              <<"x", ".", ",", "x">>}
BoldPost == {<<>>, <<"x", ".">>, <<".">>, <<".", "x">>}

BoldLines ==
    {pre \o <<"*", "*">> \o inner \o <<"*", "*">> \o post :
        pre \in BoldPre, inner \in BoldInner, post \in BoldPost}

\* texts with headings, lists, inline lists and a horizontal rule around
\* their paragraphs
BlockTexts ==
    { << <<"#", " ", "*", "*", "x", ".", "x", "*", "*">>,
         <<"x", ".", "x">>,
         <<"-", " ", "x", ".", "x">>,
         <<"-", " ", "*", "*", "x", "*", "*">>,
         <<"x", ".", "x">>,
         <<"-", "-", "-">>,
         <<"x", ".", "*", "*", "x", "*", "*">> >>,
      << <<"x", "-", " ", "x", ".", "x", "-", " ", "x", "-", " ", "x", "T", "x", ".", "x">>,
         <<"x">> >>,
      << <<"#", "#", " ", "x">>,
         <<"1", ")", " ", "x">>,
         <<>>,
         <<"#", "x", "-", " ", "x", "-", " ", "x", "1", ")", " ", "x">>,
         <<>>,
         <<>>,
         <<",", "x">> >> }

\* one line with a bold span; a plain line and a blank line before it; texts
\* with other blocks
MainTexts ==
    {<<ln>> : ln \in BoldLines}
        \cup {<<<<"x", ".", "x">>, <<>>, ln>> : ln \in BoldLines}
        \cup {<<>>, <<<<"x", ".", "x">>>>, <<<<"x", "*", "*", "x">>>>}
        \cup BlockTexts

\* ------------------------------------------------------- main, lines 688-694
InitMain ==
    /\ md_text \in MainTexts
    /\ args_reflow \in {0, 1}
    /\ args_sentences_per_para \in 0..MaxPerPara
    /\ main_html_text = <<>>
    /\ main_pc = "md_to_html"
    /\ SegIdle
    /\ MdIdle
    /\ ReflowIdle
    /\ ToolsIdle

\* lines 688 and 691
MainMdToHtml ==
    /\ main_pc = "md_to_html"
    /\ main_html_text' = MdToHtml(md_text)
    /\ main_pc' = IF args_reflow = 1 THEN "protect" ELSE "done"
    /\ UNCHANGED <<md_text, args_reflow, args_sentences_per_para>>

\* lines 691-692
MainProtect ==
    /\ main_pc = "protect"
    /\ main_html_text' = Replace(Replace(main_html_text, "<strong>", BOLDSTART),
                                 "</strong>", BOLDEND)
    /\ main_pc' = "reflow"
    /\ UNCHANGED <<md_text, args_reflow, args_sentences_per_para>>

\* line 693
MainReflow ==
    /\ main_pc = "reflow"
    /\ main_html_text' = RhythmicReflowHtml(main_html_text,
                                            MaxOf({1, args_sentences_per_para}))
    /\ main_pc' = "restore"
    /\ UNCHANGED <<md_text, args_reflow, args_sentences_per_para>>

\* line 694
MainRestore ==
    /\ main_pc = "restore"
    /\ main_html_text' = Replace(Replace(main_html_text, BOLDSTART, "<strong>"),
                                 BOLDEND, "</strong>")
    /\ main_pc' = "done"
    /\ UNCHANGED <<md_text, args_reflow, args_sentences_per_para>>

NextMain ==
    \/ MainMdToHtml /\ UNCHANGED <<segVars, mdVars, reflowVars, toolVars>>
    \/ MainProtect /\ UNCHANGED <<segVars, mdVars, reflowVars, toolVars>>
    \/ MainReflow /\ UNCHANGED <<segVars, mdVars, reflowVars, toolVars>>
    \/ MainRestore /\ UNCHANGED <<segVars, mdVars, reflowVars, toolVars>>

SpecMain == InitMain /\ [][NextMain]_vars


\* ------------------------------------------------------------ reflow claims
\* headings, lists and horizontal rules
IsNonReflowable(nd) == nd.tag \in HEADING_TAGS \cup {"ul", "ol", "hr"}

\* the non-reflowable blocks of a tree, whole, in document order
RECURSIVE NonReflowableBlocks(_)
NonReflowableBlocks(kids) ==
    Flatten([k \in 1..Len(kids) |->
                IF IsNonReflowable(kids[k]) THEN <<kids[k]>>
                ELSE NonReflowableBlocks(kids[k].kids)])

\* stands for one run of reflowable siblings
GroupMark == TagNode("#group", <<>>)

\* a tree with every run of reflowable siblings replaced by one mark, the
\* text nodes between siblings left out, the subtrees that are not walked whole
RECURSIVE Skeleton(_)
Skeleton(kids) ==
    LET tags == SelectSeq(kids, IsTag)
        part(k) ==
            IF IsTextParagraph(tags[k])
            THEN IF k > 1 /\ IsTextParagraph(tags[k - 1]) THEN <<>>
                 ELSE <<GroupMark>>
            ELSE IF tags[k].tag \in SKIP_TAGS \cup HEADING_TAGS
            THEN <<tags[k]>>
            ELSE <<TagNode(tags[k].tag, Skeleton(tags[k].kids))>>
    IN  Flatten([k \in 1..Len(tags) |-> part(k)])

\* C1: the non-reflowable blocks (headings, lists with their items, hr) are
\* the same, with the same text, in the same order, before, during and after
\* reflow, and paragraphs only change where a reflow group stood.
C1_StructurePreserved ==
    /\ NonReflowableBlocks(soup) = NonReflowableBlocks(html_text)
    /\ Skeleton(soup) = Skeleton(html_text)

\* a document with two non-reflowable blocks was changed by reflow
C1_Witness ==
    /\ rpc = "done"
    /\ soup # html_text
    /\ total_new_paras >= 2
    /\ Len(NonReflowableBlocks(html_text)) >= 2

\* a block is processed by the step
Processing == rpc = "walk" /\ blocks_processed' = blocks_processed + 1
CurrentBlock == Head(Top.blocks_to_process)
GroupSentences == CleanedSentences(CombinedText(TopKids, CurrentBlock))
GroupSentencesSet == {GroupSentences[k] : k \in 1..Len(GroupSentences)}
\* ceil(k / n)
CeilDiv(k, n) == (k + n - 1) \div n
\* the j-th chunk of n sentences
Chunk(cl, n, j) ==
    Flatten(SubSeq(cl, (j - 1) * n + 1, MinOf({j * n, Len(cl)})))
\* chunk paragraphs with one spacer between every two of them
ChunksWithSpacers(cl, n) ==
    [q \in 1..(2 * CeilDiv(Len(cl), n) - 1) |->
        IF q % 2 = 1 THEN NewParagraph(Chunk(cl, n, (q + 1) \div 2))
        ELSE Spacer]

\* C3: a group whose text has k >= 1 sentences is replaced, where its first
\* paragraph stood, by ceil(k/N) non-empty chunk paragraphs of N sentences each
\* (the last may be shorter), in order, with one spacer between every two
\* consecutive chunks and none before the first or after the last.
C3_Chunking ==
    [][(Processing /\ Len(GroupSentences) >= 1) =>
          LET first == CurrentBlock[1]
              chunks == ChunksWithSpacers(GroupSentences, per_para)
              after == KidsAt(soup', Top.path)
          IN  /\ \A q \in 1..Len(chunks) : GetText(chunks[q]) = <<>> <=> q % 2 = 0
              /\ SubSeq(after, 1, first - 1) = SubSeq(TopKids, 1, first - 1)
              /\ SubSeq(after, first, first + Len(chunks) - 1) = chunks
              /\ SubSeq(after, first + Len(chunks), Len(after)) =
                     Remaining(TopKids, CurrentBlock, first)]_vars

\* five sentences with N = 2 became chunks of 2, 2 and 1 sentences and 2 spacers
C3_Witness ==
    /\ rpc = "done"
    /\ per_para = 2
    /\ html_text = <<NewParagraph(FiveSentences)>>
    /\ soup = <<NewParagraph(<<"x", "!", "x", "!">>), Spacer,
                NewParagraph(<<"x", "!", "x", "!">>), Spacer,
                NewParagraph(<<"x">>)>>

\* the subtrees under a skipped tag or a heading, whole, in document order,
\* wherever they are
RECURSIVE SkippedSubtrees(_)
SkippedSubtrees(kids) ==
    Flatten([k \in 1..Len(kids) |->
                IF kids[k].tag \in SKIP_TAGS \cup HEADING_TAGS THEN <<kids[k]>>
                ELSE SkippedSubtrees(kids[k].kids)])

\* ... those that are not inside a reflowable paragraph
RECURSIVE SkippedBlocks(_)
SkippedBlocks(kids) ==
    Flatten([k \in 1..Len(kids) |->
                IF kids[k].tag \in SKIP_TAGS \cup HEADING_TAGS THEN <<kids[k]>>
                ELSE IF IsTextParagraph(kids[k]) THEN <<>>
                ELSE SkippedBlocks(kids[k].kids)])

\* the children collected so far by the calls in progress, as paths from the root
Collected ==
    UNION {{Append(frames[f].path, frames[f].current_block[k]) :
               k \in 1..Len(frames[f].current_block)}
           \cup UNION {{Append(frames[f].path, frames[f].blocks_to_process[b][k]) :
                           k \in 1..Len(frames[f].blocks_to_process[b])} :
                       b \in 1..Len(frames[f].blocks_to_process)} :
           f \in 1..Len(frames)}

\* the node reached from the root by a non-empty path
NodeAt(t, path) == KidsAt(t, SubSeq(path, 1, Len(path) - 1))[path[Len(path)]]

\* the path leads through or to a skipped tag or a heading
UnderSkipped(t, path) ==
    \E m \in 1..Len(path) :
        NodeAt(t, SubSeq(path, 1, m)).tag \in SKIP_TAGS \cup HEADING_TAGS

RECURSIVE HasSkippedInside(_)
HasSkippedInside(nd) ==
    \E k \in 1..Len(nd.kids) :
        \/ nd.kids[k].tag \in SKIP_TAGS \cup HEADING_TAGS
        \/ HasSkippedInside(nd.kids[k])

EmptyGroup == Processing /\ CombinedText(TopKids, CurrentBlock) = <<>>

\* C14 as stated: when the text of a group is empty, its paragraphs are removed
\* from the tree and nothing is put in their place.
C14_EmptyGroupRemoved ==
    [][EmptyGroup =>
          /\ KidsAt(soup', Top.path) = Remaining(TopKids, CurrentBlock, 1)
          /\ total_new_paras' = total_new_paras]_vars

\* C14 amended: when the text of a group is empty, the group is passed over:
\* its paragraphs stay in the tree as they are and nothing is inserted.
C14_EmptyGroupKept ==
    [][EmptyGroup =>
          /\ soup' = soup
          /\ total_new_paras' = total_new_paras]_vars

\* a whitespace-only paragraph between two headings was processed as a group
\* and the document came out as it was
C14_Witness ==
    /\ rpc = "done"
    /\ Len(html_text) = 3
    /\ html_text[1].tag = "h2"
    /\ html_text[2] = TagNode("p", <<TextNode(<<" ">>)>>)
    /\ html_text[3].tag = "h2"
    /\ blocks_processed = 1
    /\ soup = html_text

\* the text of the group being processed, and the sentences the scan closes
\* in it before the end of the text
GroupText == CombinedText(TopKids, CurrentBlock)
GroupBoundaries ==
    LET t == NormalizeText(GroupText)
    IN  Len(ScanAll([sentences |-> <<>>, current |-> <<>>, in_quote |-> FALSE],
                    t, 0, Len(t)).sentences)
\* the children of the container after the step when the group is replaced by
\* one paragraph of text t
ReplacedByOne(t) ==
    KidsAt(soup', Top.path) =
        SubSeq(TopKids, 1, CurrentBlock[1] - 1) \o <<NewParagraph(t)>>
            \o Remaining(TopKids, CurrentBlock, CurrentBlock[1])
\* nothing for the clean-up to take from the text
NeedsNoCleanup(t) == ~IsLeadPunct(t[1]) /\ NormalizeText(t) = t

\* C17 as stated: a group whose text holds no sentence boundary is replaced by
\* exactly one paragraph holding the group's text, unsplit, and no spacer,
\* however many paragraphs it had; when the clean-up leaves no sentence of a
\* non-empty text T, by one paragraph holding T verbatim.
C17_Passthrough ==
    [][/\ (Processing /\ GroupText # <<>> /\ GroupBoundaries = 0) =>
            ReplacedByOne(GroupText)
       /\ (Processing /\ GroupText # <<>> /\ GroupSentences = <<>>) =>
            ReplacedByOne(GroupText)
      ]_vars

\* C17 amended: a group whose text holds no sentence boundary is replaced by
\* exactly one non-empty paragraph and no spacer, however many paragraphs it
\* had: the paragraph holds the group's text unsplit, as it is when the
\* clean-up has nothing to take from it, else without the 。/． deleted after a
\* closing quote and the stray punctuation stripped from its front; when the
\* clean-up leaves no sentence of a non-empty text T, the paragraph holds T
\* verbatim.
C17_PassthroughUpToCleanup ==
    [][/\ (Processing /\ GroupText # <<>> /\ GroupBoundaries = 0) =>
            \E c \in {GroupText} \cup GroupSentencesSet :
                /\ ReplacedByOne(c)
                /\ c # <<>>
                /\ IsSubseq(c, GroupText)
                /\ NeedsNoCleanup(GroupText) => c = GroupText
       /\ (Processing /\ GroupText # <<>> /\ GroupSentences = <<>>) =>
            ReplacedByOne(GroupText)
      ]_vars

\* in one <div>, two paragraphs without a boundary became one paragraph of
\* their text, and two paragraphs of one 。 each became one paragraph 。。
C17_Witness ==
    /\ rpc = "done"
    /\ Len(html_text) = 1
    /\ html_text[1].tag = "div"
    /\ \E a, b \in 1..Len(soup[1].kids) :
           /\ a < b
           /\ soup[1].kids[a] = NewParagraph(<<"x", ",", "x", ".">>)
           /\ soup[1].kids[b] = NewParagraph(<<".", ".">>)

\* the document holds headings, lists and horizontal rules only, or nothing
OnlyNonReflowable(kids) == \A k \in 1..Len(kids) : IsNonReflowable(kids[k])

\* C18: reflow of a document without a reflowable paragraph (headings, lists,
\* hr only, or nothing at all) gives back the same nodes in the same order:
\* nothing is inserted, nothing is removed.
C18_IdempotentSkip ==
    OnlyNonReflowable(html_text) =>
        /\ soup = html_text
        /\ blocks_processed = 0
        /\ total_new_paras = 0

\* a heading, a horizontal rule and a list with a paragraph in an item went
\* through the reflow
C18_Witness ==
    /\ rpc = "done"
    /\ Len(html_text) = 3
    /\ html_text[1].tag = "h2"
    /\ html_text[2].tag = "hr"
    /\ html_text[3].tag = "ul"
    /\ soup = html_text

\* ================================================== publish_gdoc_html.py
\* The same three functions as the older script has them, translated from its
\* lines (given with each definition); what belongs to Python and to the HTML
\* parser (strip, join, append, get_text, str(soup), ...) is shared with the above.
\* lines 92-97: a match of "-\s+" or "\d+[.)]\s+" starting at index p of s:
\* the index of its last character, 0 when there is none
GdocSepEnd(s, p, tag) ==
    LET Digit(c) == c = "1"
        stop == {q \in p..Len(s) : ~Digit(s[q])}
        d == IF tag = "ul" THEN p
             ELSE IF stop # {} THEN MinOf(stop)
             ELSE IF p > Len(s) THEN p ELSE Len(s) + 1
    IN  IF /\ p <= Len(s)
           /\ IF tag = "ul" THEN s[p] = "-"
              ELSE Digit(s[p]) /\ d <= Len(s) /\ s[d] = ")"
           /\ d + 1 <= Len(s)
           /\ IsSpace(s[d + 1])
        THEN SkipSpaces(s, d + 1) - 1
        ELSE 0

\* lines 94-95: .search(ln): where the leftmost match starts, 0 when none
GdocInlineStart(ln, tag) ==
    LET hits == {p \in 1..Len(ln) :
                    LET e == GdocSepEnd(ln, p, tag) IN e > 0 /\ e < Len(ln)}
    IN  IF hits = {} THEN 0 ELSE MinOf(hits)

\* line 171: .split(s), piece by piece from index p on
RECURSIVE GdocSplitPieces(_, _, _, _)
GdocSplitPieces(s, p, start, tag) ==
    IF p > Len(s) THEN <<SubSeq(s, start, Len(s))>>
    ELSE LET e == GdocSepEnd(s, p, tag)
         IN  IF e > 0
             THEN <<SubSeq(s, start, p - 1)>> \o GdocSplitPieces(s, e + 1, e + 1, tag)
             ELSE GdocSplitPieces(s, p + 1, start, tag)

\* lines 170-171: the stripped non-empty parts of the line from index p on
GdocInlineParts(ln, p, tag) ==
    LET pieces == GdocSplitPieces(Strip(SubSeq(ln, p, Len(ln))), 1, 1, tag)
        NonEmpty(k) == Strip(pieces[k]) # <<>>
        idx == SelectSeq([k \in 1..Len(pieces) |-> k], NonEmpty)
    IN  [k \in 1..Len(idx) |-> Strip(pieces[idx[k]])]

\* lines 106-110
GdocSplitLastItem(item) ==
    LET hits == {p \in 1..Len(item) : item[p] = "T"}
        p == IF hits = {} THEN 0 ELSE MinOf(hits)
    IN  IF p > 1
        THEN <<RStrip(SubSeq(item, 1, p - 1)), LStrip(SubSeq(item, p, Len(item)))>>
        ELSE <<Strip(item), <<>>>>

\* lines 131-136
GdocCloseList(st) ==
    IF st.in_list
    THEN [out |-> Append(st.out, El(IF st.list_tag = "ul" THEN "/ul" ELSE "/ol", <<>>)),
          in_list |-> FALSE, list_tag |-> "none"]
    ELSE st

\* lines 138-145
GdocOpenList(st, tag) ==
    LET c == IF st.in_list /\ st.list_tag # tag THEN GdocCloseList(st) ELSE st
    IN  IF ~c.in_list
        THEN [out |-> Append(c.out, El(tag, <<>>)), in_list |-> TRUE, list_tag |-> tag]
        ELSE c

\* lines 173-191
GdocEmitInlineList(st, ln, tag) ==
    LET p == GdocInlineStart(ln, tag)
        prefix == Strip(SubSeq(ln, 1, p - 1))
        parts == GdocInlineParts(ln, p, tag)
        split == GdocSplitLastItem(parts[Len(parts)])
        items == Append(SubSeq(parts, 1, Len(parts) - 1), split[1])
        s1 == GdocCloseList(st)
        s2 == IF prefix # <<>> THEN Emit(s1, El("p", prefix)) ELSE s1
        opened == GdocOpenList(s2, tag)
        s3 == GdocCloseList([opened EXCEPT
                  !.out = @ \o [k \in 1..Len(items) |-> El("li", items[k])]])
    IN  IF split[2] # <<>> THEN Emit(s3, El("p", split[2])) ELSE s3

\* lines 148-197
GdocParseLineStep(st, ln) ==
    LET Starts(k) == /\ Len(ln) >= k + 1
                     /\ \A q \in 1..k : ln[q] = "#"
                     /\ ln[k + 1] = " "
        level == IF Starts(3) THEN 3 ELSE IF Starts(2) THEN 2
                 ELSE IF Starts(1) THEN 1 ELSE 0
        ulEnd == GdocSepEnd(ln, SkipSpaces(ln, 1), "ul")
        olEnd == GdocSepEnd(ln, SkipSpaces(ln, 1), "ol")
        u == GdocInlineStart(ln, "ul")
        o == GdocInlineStart(ln, "ol")
        kind == IF u = 0 /\ o = 0 THEN "none"
                ELSE IF u > 0 /\ (o = 0 \/ u <= o) THEN "ul" ELSE "ol"
        parts == GdocInlineParts(ln, GdocInlineStart(ln, kind), kind)
    IN  IF Strip(ln) = <<"-", "-", "-">> THEN Emit(GdocCloseList(st), El("hr", <<>>))
        ELSE IF level > 0
        THEN Emit(GdocCloseList(st),
                  El(IF level = 1 THEN "h1" ELSE IF level = 2 THEN "h2" ELSE "h3",
                     Strip(SubSeq(ln, level + 2, Len(ln)))))
        ELSE IF ulEnd > 0
        THEN Emit(GdocOpenList(st, "ul"), El("li", Strip(SubSeq(ln, ulEnd + 1, Len(ln)))))
        ELSE IF olEnd > 0
        THEN Emit(GdocOpenList(st, "ol"), El("li", Strip(SubSeq(ln, olEnd + 1, Len(ln)))))
        ELSE IF kind # "none" /\ Len(parts) >= 3
        THEN GdocEmitInlineList(st, ln, kind)
        ELSE IF Strip(ln) = <<>> THEN Emit(GdocCloseList(st), El("", <<>>))
        ELSE Emit(GdocCloseList(st), El("p", ln))

\* lines 147-199
RECURSIVE GdocParseLines(_, _)
GdocParseLines(st, lns) ==
    IF lns = <<>> THEN GdocCloseList(st)
    ELSE GdocParseLines(GdocParseLineStep(st, Head(lns)), Tail(lns))

\* lines 201-210
RECURSIVE GdocCollapseBlanks(_, _)
GdocCollapseBlanks(o, prev_blank) ==
    IF o = <<>> THEN <<>>
    ELSE IF Head(o).tag = ""
         THEN (IF prev_blank THEN <<>> ELSE <<Head(o)>>)
                  \o GdocCollapseBlanks(Tail(o), TRUE)
         ELSE <<Head(o)>> \o GdocCollapseBlanks(Tail(o), FALSE)

\* lines 113-122: from index pos on, with BOLD_RX
RECURSIVE GdocRenderInlineFrom(_, _)
GdocRenderInlineFrom(t, pos) ==
    LET IsMark(p) == p + 1 <= Len(t) /\ t[p] = "*" /\ t[p + 1] = "*"
        Ends(p) == {q \in (p + 3)..Len(t) : IsMark(q)}
        starts == {p \in pos..Len(t) : IsMark(p) /\ Ends(p) # {}}
    IN  IF starts = {} THEN Escape(SubSeq(t, pos, Len(t)))
        ELSE LET a == MinOf(starts)
                 b == MinOf(Ends(a))
             IN  Escape(SubSeq(t, pos, a - 1)) \o <<"<strong>">>
                     \o Escape(SubSeq(t, a + 2, b - 1)) \o <<"</strong>">>
                     \o GdocRenderInlineFrom(t, b + 2)

\* lines 125-223: the text between <body> and </body>
GdocMdToHtml(md) ==
    LET st == GdocParseLines([out |-> <<>>, in_list |-> FALSE, list_tag |-> "none"], md)
        body == GdocCollapseBlanks(st.out, FALSE)
        Entry(e) ==
            IF e.tag = "" THEN <<>>
            ELSE IF e.tag \in {"hr", "ul", "ol", "/ul", "/ol"} THEN <<OpenTag(e.tag)>>
            ELSE <<OpenTag(e.tag)>> \o GdocRenderInlineFrom(e.text, 1) \o <<EndTag(e.tag)>>
    IN  Flatten([k \in 1..(2 * Len(body) - 1) |->
                    IF k % 2 = 1 THEN Entry(body[(k + 1) \div 2]) ELSE <<"\n">>])

\* line 236: re.sub of a run of R characters and newlines
\* that holds a newline, R = \s (wide) or [ \t]
GdocDropNewlineRuns(s, wide) ==
    LET InRun(c) == c = "\n" \/ (IF wide THEN IsSpace(c) ELSE c = " ")
        Between(p, q) == (IF p < q THEN p ELSE q)..(IF p < q THEN q ELSE p)
        KeepAt(p) ==
            ~(/\ InRun(s[p])
              /\ \E q \in 1..Len(s) :
                     s[q] = "\n" /\ \A r \in Between(p, q) : InRun(s[r]))
        idx == SelectSeq([k \in 1..Len(s) |-> k], KeepAt)
    IN  [k \in 1..Len(idx) |-> s[idx[k]]]

\* lines 248-264: one iteration of the scan, on the character t[k + 1]
GdocScanStep(st, t, k) ==
    LET char == t[k + 1]
        cur == Append(st.current, char)
        inq == IF char = "[" THEN TRUE
               ELSE IF char \in {"]", "}"} THEN FALSE
               ELSE st.in_quote
        closes == /\ ~inq
                  /\ char \in {".", "!"}
                  /\ k + 1 < Len(t)
                  /\ ~IsSpace(t[k + 2])
        sent == Strip(cur)
    IN  [sentences |-> IF closes /\ sent # <<>>
                       THEN Append(st.sentences, sent) ELSE st.sentences,
         current   |-> IF closes THEN <<>> ELSE cur,
         in_quote  |-> inq]

\* lines 248-264: the iterations on the characters lo+1..hi of t, by halves
RECURSIVE GdocScanAll(_, _, _, _)
GdocScanAll(st, t, lo, hi) ==
    IF lo >= hi THEN st
    ELSE IF hi = lo + 1 THEN GdocScanStep(st, t, lo)
    ELSE LET half == GdocScanAll(st, t, lo, (lo + hi) \div 2)
         IN  IF half.in_quote \in BOOLEAN
             THEN GdocScanAll(half, t, (lo + hi) \div 2, hi)
             ELSE half

\* lines 236-277: the three re.sub, the scan, the flush and the clean-up
GdocCleanedSentences(s) ==
    LET Quote(c) == c \in {"]", "}"}
        Kuten(c) == c = "."
        Lead(c) == c \in {".", ",", "}"}
        t1 == GdocDropNewlineRuns(s, FALSE)
        Kept2(p) == ~(p > 1 /\ Kuten(t1[p]) /\ Quote(t1[p - 1]))
        idx2 == SelectSeq([k \in 1..Len(t1) |-> k], Kept2)
        t2 == [k \in 1..Len(idx2) |-> t1[idx2[k]]]
        Matches(p) == /\ Quote(t2[p])
                      /\ SkipSpaces(t2, p + 1) > p + 1
                      /\ SkipSpaces(t2, p + 1) <= Len(t2)
                      /\ Kuten(t2[SkipSpaces(t2, p + 1)])
        Kept3(r) == ~\E p \in 1..(r - 1) :
                        Matches(p) /\ r <= SkipSpaces(t2, p + 1)
        idx3 == SelectSeq([k \in 1..Len(t2) |-> k], Kept3)
        t3 == [k \in 1..Len(idx3) |-> t2[idx3[k]]]
        st == GdocScanAll([sentences |-> <<>>, current |-> <<>>,
                           in_quote |-> FALSE], t3, 0, Len(t3))
        sents == IF st.current # <<>> /\ Strip(st.current) # <<>>
                 THEN Append(st.sentences, Strip(st.current)) ELSE st.sentences
        Clean(sent) ==
            LET stop == {q \in 1..Len(sent) : ~Lead(sent[q])}
                a == IF stop # {} THEN MinOf(stop) ELSE Len(sent) + 1
                b == IF a > 1 THEN SkipSpaces(sent, a) ELSE 1
            IN  Strip(SubSeq(sent, b, Len(sent)))
        NonEmpty(c) == c # <<>>
    IN  SelectSeq([k \in 1..Len(sents) |-> Clean(sents[k])], NonEmpty)

\* lines 233-288
GdocReflowParagraphText(s, n) ==
    LET cl == GdocCleanedSentences(s)
        NonEmpty(c) == c # <<>>
        chunk(j) == Strip(Flatten(SubSeq(cl, (j - 1) * n + 1,
                                         MinOf({j * n, Len(cl)}))))
    IN  IF cl = <<>>
        THEN (IF Strip(s) # <<>> THEN <<Strip(s)>> ELSE <<>>)
        ELSE SelectSeq([j \in 1..((Len(cl) + n - 1) \div n) |-> chunk(j)], NonEmpty)

\* lines 228-321
GdocIsTextParagraph(nd) ==
    /\ IsTag(nd)
    /\ nd.tag \notin {"code", "pre", "table", "thead", "tbody", "tr", "th", "td",
                      "ul", "ol", "li", "blockquote"}
    /\ nd.tag \notin {"h1", "h2", "h3", "h4", "h5", "h6"}
    /\ nd.tag \in {"p", "div"}
    /\ \A k \in 1..Len(nd.kids) :
           IsTag(nd.kids[k]) =>
               nd.kids[k].tag \in {"b", "strong", "i", "em", "span", "a", "br", "u",
                                   "s", "small", "mark", "sub", "sup", "code"}

\* lines 331-345: the blocks of a container
GdocBlocksOf(kids) ==
    LET Breaks(k) == IsTag(kids[k]) /\ ~GdocIsTextParagraph(kids[k])
        GroupOf(k) == Cardinality({q \in 1..k : Breaks(q)})
        Used(g) == \E k \in 1..Len(kids) :
                       GdocIsTextParagraph(kids[k]) /\ GroupOf(k) = g
        groups == SelectSeq([g \in 1..(Len(kids) + 1) |-> g - 1], Used)
    IN  [b \in 1..Len(groups) |->
            LET InGroup(k) == GdocIsTextParagraph(kids[k]) /\ GroupOf(k) = groups[b]
            IN  SelectSeq([k \in 1..Len(kids) |-> k], InGroup)]

\* lines 348-390
GdocProcessOneBlock(kids, block, n) ==
    LET combined_text ==
            Flatten([b \in 1..Len(block) |->
                        Strip(GdocDropNewlineRuns(GetText(kids[block[b]]), TRUE))])
        ps == GdocReflowParagraphText(combined_text, n)
        new == [q \in 1..(2 * Len(ps) - 1) |->
                   IF q % 2 = 1 THEN TagNode("p", <<TextNode(ps[(q + 1) \div 2])>>)
                   ELSE TagNode("p", <<TagNode("br", <<>>)>>)]
        Stays(k) == k >= block[1] /\ \A b \in 1..Len(block) : block[b] # k
        idx == SelectSeq([k \in 1..Len(kids) |-> k], Stays)
    IN  IF combined_text = <<>> \/ ps = <<>> THEN kids
        ELSE SubSeq(kids, 1, block[1] - 1) \o new
                 \o [k \in 1..Len(idx) |-> kids[idx[k]]]

\* lines 348-390: for the blocks 1..j, the last one first
RECURSIVE GdocProcessBlocks(_, _, _, _)
GdocProcessBlocks(kids, blocks, j, n) ==
    IF j = 0 THEN kids
    ELSE GdocProcessBlocks(GdocProcessOneBlock(kids, blocks[j], n), blocks, j - 1, n)

\* lines 323-390
RECURSIVE GdocFindAndProcessBlocks(_, _)
GdocFindAndProcessBlocks(kids, n) ==
    LET Walked(child) ==
            /\ child.tag \notin {"code", "pre", "table", "thead", "tbody", "tr", "th",
                                 "td", "ul", "ol", "li", "blockquote"}
            /\ child.tag \notin {"h1", "h2", "h3", "h4", "h5", "h6"}
        walked == [k \in 1..Len(kids) |->
                      IF /\ IsTag(kids[k])
                         /\ ~GdocIsTextParagraph(kids[k])
                         /\ Walked(kids[k])
                      THEN [kids[k] EXCEPT !.kids = GdocFindAndProcessBlocks(@, n)]
                      ELSE kids[k]]
        blocks == GdocBlocksOf(kids)
    IN  GdocProcessBlocks(walked, blocks, Len(blocks), n)

\* lines 290-408: on a body written by md_to_html
GdocRhythmicReflowHtml(h, n) ==
    Serialize(GdocFindAndProcessBlocks(ParseBody(h), n))

\* ------------------------------------------------------------ main claims
InitialParse == [out |-> <<>>, in_list |-> FALSE, list_tag |-> "none"]
\* html_text as line 692 leaves it, and N as line 693 passes it
Protected == Replace(Replace(MdToHtml(md_text), "<strong>", BOLDSTART),
                     "</strong>", BOLDEND)
ReflowArg == MaxOf({1, args_sentences_per_para})
\* the texts of the reflow groups of the page
GroupTexts ==
    LET kids == ParseBody(Protected)
        blocks == BlocksOf(kids)
    IN  {CombinedText(kids, blocks[b]) : b \in 1..Len(blocks)}

\* C19: for every Markdown text and every N >= 1 the functions md_to_html,
\* _reflow_paragraph_text and rhythmic_reflow_html of document_publisher.py
\* give the same block sequence, the same sentences and paragraphs and the
\* same reflowed tree as those of publish_gdoc_html.py.
C19_SameAsPublishGdocHtml ==
    /\ GdocParseLines(InitialParse, md_text) = ParseLines(InitialParse, md_text)
    /\ GdocMdToHtml(md_text) = MdToHtml(md_text)
    /\ \A t \in GroupTexts :
           /\ GdocCleanedSentences(t) = CleanedSentences(t)
           /\ GdocReflowParagraphText(t, ReflowArg) = ReflowParagraphText(t, ReflowArg)
    /\ GdocFindAndProcessBlocks(ParseBody(Protected), ReflowArg)
           = FindAndProcessBlocks(ParseBody(Protected), ReflowArg)
    /\ GdocRhythmicReflowHtml(Protected, ReflowArg)
           = RhythmicReflowHtml(Protected, ReflowArg)

\* a text with a heading, list items, a rule and paragraphs went through the
\* reflow, which split its paragraphs, and the page is the one the older
\* functions give
C19_Witness ==
    /\ main_pc = "restore"
    /\ Len(md_text) = 7
    /\ args_sentences_per_para = 1
    /\ main_html_text # Protected
    /\ main_html_text = GdocRhythmicReflowHtml(Protected, ReflowArg)

\* the texts between each "<strong>" and the "</strong>" that follows it
BoldSpans(h) ==
    LET IsStart(k) == h[k] = "<strong>"
        starts == SelectSeq([k \in 1..Len(h) |-> k], IsStart)
        EndOf(a) == LET ends == {b \in a..Len(h) : h[b] = "</strong>"}
                    IN  IF ends = {} THEN Len(h) + 1 ELSE MinOf(ends)
    IN  [q \in 1..Len(starts) |-> SubSeq(h, starts[q] + 1, EndOf(starts[q]) - 1)]

\* the bold spans md_to_html made of the Markdown text
RenderedSpans == BoldSpans(MdToHtml(md_text))
\* the reflow ran between protect and restore
Reflowed == main_pc = "done" /\ args_reflow = 1
NoTerminal(s) == \A k \in 1..Len(s) : ~IsTerminal(s[k])
\* a text without the paragraph markup put between its characters
TextOnly(s) ==
    LET IsText(k) == s[k] \notin {"<p>", "</p>", "<br/>"}
        idx == SelectSeq([k \in 1..Len(s) |-> k], IsText)
    IN  [k \in 1..Len(idx) |-> s[idx[k]]]

\* C15: after protect, reflow and restore, a bold span whose inner text holds
\* no 。．！？ has its start and end markers in one output paragraph, in order,
\* around exactly the original inner text, for every N >= 1.
C15_EmphasisIntegrity ==
    Reflowed =>
        /\ Len(BoldSpans(main_html_text)) = Len(RenderedSpans)
        /\ \A q \in 1..Len(RenderedSpans) :
               NoTerminal(RenderedSpans[q]) =>
                   BoldSpans(main_html_text)[q] = RenderedSpans[q]

\* a span after a sentence boundary and before another moved, whole, to a
\* paragraph of its own (N = 1)
C15_Witness ==
    /\ Reflowed
    /\ args_sentences_per_para = 1
    /\ md_text = <<<<"x", ".", "*", "*", "x", "&", "*", "*", ".", "x">>>>
    /\ main_html_text = <<"<p>", "x", ".", "</p>", "<p>", "<br/>", "</p>",
                          "<p>", "<strong>", "x", "&amp;", "</strong>", ".", "</p>",
                          "<p>", "<br/>", "</p>", "<p>", "x", "</p>">>

\* C16: for every input and every N >= 1 the text that was inside a bold span
\* stands character for character, in order, between the span's markers after
\* protect, reflow and restore: no clean-up removes a character of it.
C16_EmphasisTextKept ==
    Reflowed =>
        /\ Len(BoldSpans(main_html_text)) = Len(RenderedSpans)
        /\ \A q \in 1..Len(RenderedSpans) :
               TextOnly(BoldSpans(main_html_text)[q]) = RenderedSpans[q]

\* ------------------------------------------------- emphasis and boundaries
\* how many times the token tok stands in s
Count(s, tok) == Cardinality({k \in 1..Len(s) : s[k] = tok})
\* the index of the member of seqs that holds the q-th tok of their concatenation
HolderOf(seqs, tok, q) ==
    MinOf({j \in 1..Len(seqs) : Count(Flatten(SubSeq(seqs, 1, j)), tok) >= q})
\* the reflow groups of the protected page, first to last
ProtectedKids == ParseBody(Protected)
ProtectedBlocks == BlocksOf(ProtectedKids)
\* the start sentinels of the page before the group b
SpansBefore(b) ==
    Count(Flatten([k \in 1..(ProtectedBlocks[b][1] - 1) |->
                       GetText(ProtectedKids[k])]), BOLDSTART)
\* the sentences of the group b, and its spans
SentencesOf(b) == CleanedSentences(CombinedText(ProtectedKids, ProtectedBlocks[b]))
SpansOf(b) == Count(CombinedText(ProtectedKids, ProtectedBlocks[b]), BOLDSTART)
\* a sentence boundary falls inside the q-th span of the group b
Straddles(b, q) ==
    HolderOf(SentencesOf(b), BOLDSTART, q) # HolderOf(SentencesOf(b), BOLDEND, q)
\* a boundary between two chunks of N sentences falls inside that span
StraddlesChunks(b, q) ==
    (HolderOf(SentencesOf(b), BOLDSTART, q) - 1) \div ReflowArg
        # (HolderOf(SentencesOf(b), BOLDEND, q) - 1) \div ReflowArg
\* the texts of the top-level elements of the page after the reflow
OutputTexts ==
    LET kids == ParseBody(main_html_text)
    IN  [k \in 1..Len(kids) |-> GetText(kids[k])]
\* the sentinels of the q-th span of the group b stand in different elements
SentinelsApart(b, q) ==
    HolderOf(OutputTexts, BOLDSTART, SpansBefore(b) + q)
        # HolderOf(OutputTexts, BOLDEND, SpansBefore(b) + q)
AfterReflow == main_pc = "restore"

\* C21 as stated: whenever a sentence boundary falls inside an emphasis span,
\* the span's start and end sentinels are in different output paragraphs
\* after regrouping, for every N >= 1.
C21_StraddlingSpanSplit ==
    AfterReflow =>
        \A b \in 1..Len(ProtectedBlocks) : \A q \in 1..SpansOf(b) :
            Straddles(b, q) => SentinelsApart(b, q)

\* C21: the sentinels of an emphasis span are in different output paragraphs
\* after regrouping exactly when a boundary between two chunks of N sentences
\* falls inside the span (for N = 1, every sentence boundary inside it).
C21_StraddlingSpanSplitAtChunks ==
    AfterReflow =>
        \A b \in 1..Len(ProtectedBlocks) : \A q \in 1..SpansOf(b) :
            StraddlesChunks(b, q) <=> SentinelsApart(b, q)

\* with N = 2 the span of "x.**x.x**" begins in the second sentence and ends
\* in the third: its sentinels are in the first and the last paragraph
C21_Witness ==
    /\ AfterReflow
    /\ args_sentences_per_para = 2
    /\ md_text = <<<<"x", ".", "*", "*", "x", ".", "x", "*", "*">>>>
    /\ main_html_text = <<"<p>", "x", ".", BOLDSTART, "x", ".", "</p>",
                          "<p>", "<br/>", "</p>",
                          "<p>", "x", BOLDEND, "</p>">>

\* ------------------------------------------------------------ reflow groups
\* an element that is not a reflowable paragraph
IsBreak(nd) == IsTag(nd) /\ ~IsTextParagraph(nd)
\* the reflowable children reached from the child a without passing an
\* element that is not reflowable
RunOf(kids, a) ==
    LET Lo(k) == IF a < k THEN a ELSE k
        Hi(k) == IF a < k THEN k ELSE a
        InRun(k) == /\ IsTextParagraph(kids[k])
                    /\ \A m \in Lo(k)..Hi(k) : ~IsBreak(kids[m])
    IN  SelectSeq([k \in 1..Len(kids) |-> k], InRun)
MaximalRuns(kids) ==
    {RunOf(kids, a) : a \in {k \in 1..Len(kids) : IsTextParagraph(kids[k])}}
\* the elements of kids that are not reflowable, and the reflowable ones
\* before the first of them (g = 0), between the g-th and the next, after the last
Breaks(kids) == SelectSeq(kids, IsBreak)
Segment(kids, g) ==
    LET InSeg(k) == /\ IsTextParagraph(kids[k])
                    /\ Cardinality({m \in 1..k : IsBreak(kids[m])}) = g
        idx == SelectSeq([k \in 1..Len(kids) |-> k], InSeg)
    IN  [k \in 1..Len(idx) |-> kids[idx[k]]]
\* the groups of a tree: those of its children and those of the containers walked
RECURSIVE NumGroups(_)
NumGroups(kids) ==
    LET Inner(k) == IF IsBreak(kids[k]) /\ Walks(kids[k])
                    THEN NumGroups(kids[k].kids) ELSE 0
        RECURSIVE Sum(_)
        Sum(k) == IF k = 0 THEN 0 ELSE Inner(k) + Sum(k - 1)
    IN  Cardinality(MaximalRuns(kids)) + Sum(Len(kids))
Collecting == rpc = "walk" /\ Top.phase = "collect" /\ Top.idx = Len(TopKids)
Finishing == rpc = "walk" /\ rpc' = "done"

\* C22: the groups a container's loop collects are the maximal runs of
\* reflowable children not separated by an element that is not reflowable
\* (text between them does not separate); processing a group replaces the
\* paragraphs between its two neighbouring non-reflowable elements by the
\* re-segmented merged text and leaves every other child of the container
\* where it is; every group of the tree is processed exactly once.
C22_MaximalRuns ==
    [][/\ Collecting =>
              LET bs == frames'[Len(frames)].blocks_to_process
              IN  /\ {bs[b] : b \in 1..Len(bs)} = MaximalRuns(TopKids)
                  /\ Len(bs) = Cardinality(MaximalRuns(TopKids))
       /\ Processing =>
              LET g == Cardinality({m \in 1..CurrentBlock[1] : IsBreak(TopKids[m])})
                  after == KidsAt(soup', Top.path)
                  ps == ReflowParagraphText(CombinedText(TopKids, CurrentBlock),
                                            per_para)
              IN  /\ Breaks(after) = Breaks(TopKids)
                  /\ \A o \in 0..Len(Breaks(TopKids)) :
                         o # g => Segment(after, o) = Segment(TopKids, o)
                  /\ Segment(after, g) =
                         IF KeepsBlock(CombinedText(TopKids, CurrentBlock), ps)
                         THEN Segment(TopKids, g)
                         ELSE NewNodes(ps)
       /\ Finishing => blocks_processed = NumGroups(html_text)
      ]_vars

\* a division whose seven groups are separated by a heading, four rules and a
\* quotation: the paragraphs "x" and "、x。" with a line break between them
\* were merged into one
C22_Witness ==
    /\ rpc = "done"
    /\ per_para = 2
    /\ Len(html_text) = 1
    /\ html_text[1].tag = "div"
    /\ blocks_processed = 7
    /\ Len(Breaks(soup[1].kids)) = 6
    /\ Segment(soup[1].kids, 3) = <<NewParagraph(<<"x", ",", "x", ".">>)>>

\* ---------------------------------------------------------- inline markup
\* an element below nd, or nd itself, carries an attribute
RECURSIVE HasAttributes(_)
HasAttributes(nd) ==
    \/ "attrs" \in DOMAIN nd
    \/ \E k \in 1..Len(nd.kids) : HasAttributes(nd.kids[k])
\* the paragraphs of the block hold inline elements or attributes
HasInlineMarkup(kids, block) ==
    \E b \in 1..Len(block) :
        \/ HasAttributes(kids[block[b]])
        \/ \E k \in 1..Len(kids[block[b]].kids) : IsTag(kids[block[b]].kids[k])
\* the block is replaced by the step
Replaced ==
    /\ Processing
    /\ ~KeepsBlock(GroupText, ReflowParagraphText(GroupText, per_para))
\* the paragraphs that stand in the place of the block after the step
NewSegment ==
    Segment(KidsAt(soup', Top.path),
            Cardinality({m \in 1..CurrentBlock[1] : IsBreak(TopKids[m])}))

C27_ReflowIdempotent ==
    rpc = "done" => FindAndProcessBlocks(soup, per_para) = soup

\* ============================================================== lib/llm.py
\* LLMClient.generate for the provider "openai".  Token limits are counted in
\* a small unit; a response is its stripped content ("" when empty) and its
\* finish_reason, or the request raises.
MaxTokens == 9      \* largest max_tokens argument tried
\* line 166 with one more retry
MaxRetriesFour == 3 + 1
\* line 166
MaxRetries == 3
\* MAX_OUTPUT_TOKENS, lines 17-58, and the default of line 86
ModelMaxima == {4, 6, 16}

\* line 94: generate(model, system, user, max_tokens) is called
InitLlm ==
    /\ max_tokens \in 1..MaxTokens
    /\ model_max \in ModelMaxima
    /\ current_max = 0
    /\ retry_count = 0
    /\ finish_reason = "none"
    /\ resp_text = ""
    /\ requested = <<>>
    /\ handler_limit = 0
    /\ lpc = "generate"
    /\ DocsIdle
    /\ CsvIdle
    /\ SanIdle

\* lines 98-111 and 132-167: the limit is capped, the first request is sent
\* and its response read
LlmGenerate ==
    /\ lpc = "generate"
    /\ LET m == IF max_tokens > model_max THEN model_max ELSE max_tokens
       IN  /\ max_tokens' = m
           /\ requested' = <<m>>
           /\ \/ /\ lpc' = "except"
                 /\ UNCHANGED <<resp_text, finish_reason, current_max>>
              \/ \E content \in {"", "a", "b"}, fr \in {"length", "stop"} :
                     /\ resp_text' = content
                     /\ finish_reason' = IF content = "" THEN fr ELSE finish_reason
                     /\ IF content = "" /\ fr = "length"
                        THEN lpc' = "loop" /\ current_max' = m
                        ELSE lpc' = "return" /\ UNCHANGED current_max
    /\ UNCHANGED <<model_max, retry_count, handler_limit>>

\* lines 169-193: one iteration of the while loop
LlmRetry ==
    /\ lpc = "loop"
    /\ retry_count < MaxRetries
    /\ resp_text = ""
    /\ LET new_max == IF current_max * 2 < model_max
                      THEN current_max * 2 ELSE model_max
       IN  IF new_max = current_max
           THEN /\ lpc' = "return"
                /\ UNCHANGED <<requested, resp_text, finish_reason, current_max,
                               retry_count>>
           ELSE /\ requested' = Append(requested, new_max)
                /\ \/ /\ lpc' = "except"
                      /\ UNCHANGED <<resp_text, finish_reason, current_max,
                                     retry_count>>
                   \/ \E content \in {"", "a", "b"}, fr \in {"length", "stop"} :
                          /\ resp_text' = content
                          /\ finish_reason' =
                                 IF content = "" THEN fr ELSE finish_reason
                          /\ IF content = "" /\ fr # "length"
                             THEN /\ lpc' = "return"
                                  /\ UNCHANGED <<current_max, retry_count>>
                             ELSE /\ lpc' = "loop"
                                  /\ current_max' = new_max
                                  /\ retry_count' = retry_count + 1
    /\ UNCHANGED <<max_tokens, model_max, handler_limit>>

\* lines 169 (the loop condition fails) and 195-196
LlmReturn ==
    /\ \/ lpc = "return"
       \/ lpc = "loop" /\ ~(retry_count < MaxRetries /\ resp_text = "")
    /\ lpc' = "returned"
    /\ UNCHANGED <<max_tokens, model_max, current_max, retry_count,
                   finish_reason, resp_text, requested, handler_limit>>

\* lines 198-230: a request raised; the handler sends one request with the
\* limit of the call (parameter not supported) or with the limit the error
\* message names (limit too large, any number), or raises again
LlmExcept ==
    /\ lpc = "except"
    /\ \/ /\ lpc' = "raised"
          /\ UNCHANGED <<handler_limit, resp_text>>
       \/ \E at_most \in {max_tokens} \cup 1..(model_max + 1) :
              /\ handler_limit' = at_most
              /\ \/ lpc' = "raised" /\ UNCHANGED resp_text
                 \/ \E content \in {"", "a", "b"} :
                        resp_text' = content /\ lpc' = "returned"
    /\ UNCHANGED <<max_tokens, model_max, current_max, retry_count,
                   finish_reason, requested>>

NextLlm ==
    \/ LlmGenerate /\ UNCHANGED <<docVars, csvVars, sanVars>>
    \/ LlmRetry /\ UNCHANGED <<docVars, csvVars, sanVars>>
    \/ LlmReturn /\ UNCHANGED <<docVars, csvVars, sanVars>>
    \/ LlmExcept /\ UNCHANGED <<docVars, csvVars, sanVars>>

\* every request of the client comes back, with a response or an error, and
\* the statements between two requests run: no step waits for ever
SpecLlm == InitLlm /\ [][NextLlm]_vars /\ WF_vars(NextLlm)

\* ------------------------------------------------------------- llm claims
\* the limit requested before the k-th request, doubled and capped
Doubled(k) ==
    IF requested[k - 1] * 2 < model_max THEN requested[k - 1] * 2 ELSE model_max
\* a retry request is sent by the step
Retrying == Len(requested) >= 1 /\ Len(requested') = Len(requested) + 1
\* what holds of the requests of the loop, whatever the responses
RetryDiscipline ==
    /\ retry_count <= 3
    /\ Len(requested) <= 1 + 3
    /\ \A k \in 1..Len(requested) : requested[k] <= model_max
    /\ \A k \in 2..Len(requested) :
           /\ requested[k] = Doubled(k)
           /\ requested[k] > requested[k - 1]
    /\ (lpc = "returned" /\ handler_limit = 0 /\ resp_text = "") =>
           \/ finish_reason # "length"
           \/ requested[Len(requested)] = model_max
           \/ Len(requested) = 1 + 3
\* a retry follows an empty response with finish_reason "length" only
RetryOnlyAfterLength ==
    Retrying => resp_text = "" /\ finish_reason = "length"

\* C28 as stated: at most 3 retries, each requesting min(2 x previous limit,
\* model maximum), strictly more than before and never more than the model
\* maximum; a retry is made only after an empty response with finish_reason
\* "length"; the call always ends returning the last text.
C28_LengthRetryReturns ==
    /\ []RetryDiscipline
    /\ [][RetryOnlyAfterLength]_vars
    /\ <>(lpc = "returned" /\ handler_limit = 0)

\* C28 amended: the same bounds on the retries; the call always ends, by
\* returning the last text when no request raises, and otherwise by the
\* exception handler, which returns the text of one more request or raises.
C28_LengthRetryBounded ==
    /\ []RetryDiscipline
    /\ [][RetryOnlyAfterLength]_vars
    /\ <>(lpc \in {"returned", "raised"})

\* three retries were made from the limit 1 for a model maximum of 16 and
\* the last text, still empty, was returned
C28_Witness ==
    /\ lpc = "returned"
    /\ handler_limit = 0
    /\ model_max = 16
    /\ requested = <<1, 2, 4, 8>>
    /\ retry_count = 3
    /\ resp_text = ""
    /\ finish_reason = "length"

\* ===================================================== process_csv
\* three_call_article.py lines 498-581 (article_generator.py lines 217-292
\* are the same statements).  A row of the CSV is its keyword, its status and
\* the number of its fields compared with the header: "full" as many, "short"
\* fewer (csv.DictReader gives None for the missing optional column), "long"
\* more (csv.DictReader keeps the extra fields under the key None).
MaxRows == 3        \* most rows of a generated CSV file
MaxLimit == 2       \* largest --limit tried (0 is no limit)
\* line 602 / 633: --csv_ready_values ",READY", upper-cased
ReadyValues == {"", "READY"}
\* line 603
DoneValue == "DONE"

\* line 539: (status or "").strip().upper()
NormalStatus(status) == IF status = " ready " THEN "READY" ELSE status

CsvRows ==
    [kw : {"", "k"}, status : {"", "READY", " ready ", "DONE"},
     fields : {"full", "short", "long"}]

\* lines 514-533: the file is read
InitCsv ==
    /\ rows \in UNION {[1..n -> CsvRows] : n \in 0..MaxRows}
    /\ file = rows
    /\ limit \in 0..MaxLimit
    /\ csv_idx = 0
    /\ processed = 0
    /\ attempted = <<>>
    /\ writes = 0
    /\ cpc = "loop"
    /\ DocsIdle
    /\ LlmIdle
    /\ SanIdle

\* lines 535-574: one iteration of the loop over the rows
CsvRow ==
    /\ cpc = "loop"
    /\ csv_idx < Len(rows)
    /\ ~(limit # 0 /\ processed >= limit)
    /\ LET row == rows[csv_idx + 1]
           status == NormalStatus(row.status)
       IN  IF row.kw = "" \/ (status # "" /\ status \notin ReadyValues)
           THEN \* lines 541-544: continue
                /\ csv_idx' = csv_idx + 1
                /\ UNCHANGED <<rows, processed, attempted, cpc>>
           ELSE IF row.fields = "short"
           THEN \* line 552: row[csv_col] is None, None.strip() raises
                /\ cpc' = "raised"
                /\ UNCHANGED <<rows, processed, attempted, csv_idx>>
           ELSE \* lines 560-574: the generation succeeds or raises
                /\ attempted' = Append(attempted, csv_idx + 1)
                /\ csv_idx' = csv_idx + 1
                /\ cpc' = cpc
                /\ \/ /\ rows' = [rows EXCEPT ![csv_idx + 1].status = DoneValue]
                      /\ processed' = processed + 1
                   \/ /\ rows' = [rows EXCEPT ![csv_idx + 1].status = "ERROR: e"]
                      /\ processed' = processed
    /\ UNCHANGED <<file, limit, writes>>

\* lines 536-537 (break) or the end of the rows, then lines 576-581: the file
\* is opened for writing and the rows are written one by one; DictWriter
\* raises at the first row that holds a key outside the header
CsvWrite ==
    /\ cpc = "loop"
    /\ csv_idx = Len(rows) \/ (limit # 0 /\ processed >= limit)
    /\ writes' = writes + 1
    /\ LET long == {j \in 1..Len(rows) : rows[j].fields = "long"}
       IN  IF long = {}
           THEN file' = rows /\ cpc' = "returned"
           ELSE file' = SubSeq(rows, 1, MinOf(long) - 1) /\ cpc' = "raised"
    /\ UNCHANGED <<rows, limit, csv_idx, processed, attempted>>

NextCsv ==
    \/ CsvRow /\ UNCHANGED <<docVars, llmVars, sanVars>>
    \/ CsvWrite /\ UNCHANGED <<docVars, llmVars, sanVars>>

SpecCsv == InitCsv /\ [][NextCsv]_vars

\* ------------------------------------------------------------- csv claims
\* the row is to be attempted: keyword non-empty, status empty or ready
Eligible(row) ==
    row.kw # "" /\ NormalStatus(row.status) \in ReadyValues \cup {""}
WasAttempted(j) == \E a \in 1..Len(attempted) : attempted[a] = j
SetDone == {j \in 1..Len(rows) : WasAttempted(j) /\ rows[j].status = DoneValue}
\* what holds of the rows while the loop runs (the file is still the input)
RowsProtocol ==
    /\ \A a \in 1..Len(attempted), b \in 1..Len(attempted) :
           a < b => attempted[a] < attempted[b]
    /\ \A j \in 1..Len(rows) :
           /\ j <= csv_idx => (WasAttempted(j) <=> Eligible(file[j]))
           /\ j > csv_idx => ~WasAttempted(j)
           /\ WasAttempted(j) => /\ rows[j].status \in {DoneValue, "ERROR: e"}
                                 /\ rows[j].kw = file[j].kw
           /\ ~WasAttempted(j) => rows[j] = file[j]
    /\ Cardinality(SetDone) = processed
    /\ limit > 0 => Cardinality(SetDone) <= limit
\* every row was visited, or the limit stopped the loop
LoopOver == csv_idx = Len(rows) \/ (limit # 0 /\ processed >= limit)

\* C29: rows are visited in file order; a visited row is attempted exactly
\* when its keyword is non-empty and its status is empty or a ready value; an
\* attempted row ends with the done value or an ERROR status and the loop
\* goes on; the other rows keep their status; with a limit at most limit
\* rows are set to the done value; the run ends with the file written once,
\* after the loop, holding the rows.
C29_StatusProtocol ==
    /\ writes = 0 => RowsProtocol
    /\ writes <= 1
    /\ writes = 1 => cpc # "loop" /\ LoopOver
    /\ cpc # "loop" => writes = 1 /\ file = rows

\* the same, for the files whose every row has as many fields as the header
C29_StatusProtocolOfFullRows ==
    (\A j \in 1..Len(rows) : rows[j].fields = "full") => C29_StatusProtocol

\* ====================================== sanitize_generated_markdown
\* three_call_article.py lines 125-156 (article_generator.py lines 41-69 are
\* the same statements).  A line is a sequence of characters: "#", " ", "T"
\* (the text of the selected title), "x" (any other text) and "<" (one whole
\* <<<NAME>>> marker).
MaxMdLines == 3     \* most lines of a generated Markdown text

\* line 105: _PLACEHOLDER_LINE_RE = ^\s*[#>\-\s]*<{3}[^>]+>{3}\s*$
IsPlaceholderLine(ln) ==
    \E p \in 1..Len(ln) :
        /\ ln[p] = "<"
        /\ \A q \in 1..(p - 1) : ln[q] \in {"#", " "}
        /\ \A q \in (p + 1)..Len(ln) : ln[q] = " "

\* line 133: h1_pat = ^\s*#\s*(.+?)\s*$ matches when a "#" follows the
\* leading whitespace and at least one character follows that "#"
H1Match(ln) ==
    LET a == SkipSpaces(ln, 1)
    IN  a < Len(ln) /\ ln[a] = "#"

\* m.group(1).strip()
H1Group(ln) == Strip(SubSeq(ln, SkipSpaces(ln, 1) + 1, Len(ln)))

\* "\n".join(lines).strip(), as lines again
StripJoined(ls) ==
    LET full == {k \in 1..Len(ls) : Strip(ls[k]) # <<>>}
    IN  IF full = {} THEN <<>>
        ELSE [k \in 1..(MaxOf(full) - MinOf(full) + 1) |->
                 LET ln == ls[MinOf(full) + k - 1]
                     l == IF k = 1 THEN LStrip(ln) ELSE ln
                 IN  IF k = MaxOf(full) - MinOf(full) + 1 THEN RStrip(l) ELSE l]

SanLinePool ==
    {<<>>, <<" ">>, <<"x">>, <<"T">>, <<"#">>, <<"<">>, <<"#", " ", "<">>,
     <<"#", " ", "T">>, <<"#", " ", "x">>, <<"#", "T">>,
     <<" ", "#", " ", "T", " ">>, <<"#", "#", " ", "x">>,
     <<"#", "#", "#", " ", "T">>}

\* line 125: sanitize_generated_markdown(md, selected_title), md.splitlines()
InitSan ==
    /\ san_md \in UNION {[1..n -> SanLinePool] : n \in 0..MaxMdLines}
    /\ selected_title = <<"T">>
    /\ san_lines = san_md
    /\ found_h1 = FALSE
    /\ spc = "placeholders"
    /\ DocsIdle
    /\ LlmIdle
    /\ CsvIdle

\* line 130: the <<<...>>> lines are removed
SanDropPlaceholders ==
    /\ spc = "placeholders"
    /\ LET Kept(ln) == ~IsPlaceholderLine(ln)
       IN  san_lines' = SelectSeq(san_lines, Kept)
    /\ spc' = "normalize"
    /\ UNCHANGED <<san_md, selected_title, found_h1>>

\* lines 133-143: the first line h1_pat matches becomes "# " + selected_title
SanNormalizeH1 ==
    /\ spc = "normalize"
    /\ LET hits == {k \in 1..Len(san_lines) : H1Match(san_lines[k])}
       IN  /\ found_h1' = (hits # {})
           /\ san_lines' =
                  [k \in 1..Len(san_lines) |->
                      IF hits # {} /\ k = MinOf(hits)
                      THEN <<"#", " ">> \o selected_title
                      ELSE san_lines[k]]
    /\ spc' = "dedupe"
    /\ UNCHANGED <<san_md, selected_title>>

\* lines 145-156: of the lines h1_pat matches with the selected title as
\* their text only the first is kept; the text is joined and stripped
SanDedupe ==
    /\ spc = "dedupe"
    /\ LET same == {k \in 1..Len(san_lines) :
                       /\ H1Match(san_lines[k])
                       /\ H1Group(san_lines[k]) = Strip(selected_title)}
           idx == SelectSeq([k \in 1..Len(san_lines) |-> k],
                            LAMBDA k : k \notin same \/ k = MinOf(same))
       IN  san_lines' = StripJoined([k \in 1..Len(idx) |-> san_lines[idx[k]]])
    /\ spc' = "done"
    /\ UNCHANGED <<san_md, selected_title, found_h1>>

NextSan ==
    \/ SanDropPlaceholders /\ UNCHANGED <<docVars, llmVars, csvVars>>
    \/ SanNormalizeH1 /\ UNCHANGED <<docVars, llmVars, csvVars>>
    \/ SanDedupe /\ UNCHANGED <<docVars, llmVars, csvVars>>

SpecSan == InitSan /\ [][NextSan]_vars

\* -------------------------------------------------------- sanitize claims
\* a level-1 heading line of Markdown: "# " and a text
IsLevel1(ln) ==
    LET a == SkipSpaces(ln, 1)
    IN  /\ a + 1 <= Len(ln)
        /\ ln[a] = "#"
        /\ ln[a + 1] = " "
        /\ Strip(SubSeq(ln, a + 2, Len(ln))) # <<>>
HeadingText(ln) == Strip(SubSeq(ln, SkipSpaces(ln, 1) + 2, Len(ln)))
IsTitleLine(ln) == IsLevel1(ln) /\ HeadingText(ln) = Strip(selected_title)
TitleLine == <<"#", " ">> \o selected_title
\* the result the normalisation is said to give
Normalised ==
    LET Kept(ln) == ~IsPlaceholderLine(ln)
        kept == SelectSeq(san_md, Kept)
        h1s == {k \in 1..Len(kept) : IsLevel1(kept[k])}
        first == IF h1s = {} THEN 0 ELSE MinOf(h1s)
        idx == SelectSeq([k \in 1..Len(kept) |-> k],
                         LAMBDA k : k <= first \/ ~IsTitleLine(kept[k]))
        body == [k \in 1..Len(idx) |->
                    IF idx[k] = first THEN TitleLine ELSE kept[idx[k]]]
    IN  IF h1s = {} THEN <<TitleLine>> \o body ELSE body

\* C30: the result holds exactly one level-1 heading line with the selected
\* title as its text: the first H1 of the input becomes "# <selected_title>"
\* (an H1 is added when there is none), later H1 lines equal to the title and
\* placeholder lines are removed, every other line is kept, in order.
C30_OneTitleHeading ==
    spc = "done" =>
        /\ Cardinality({k \in 1..Len(san_lines) : IsTitleLine(san_lines[k])}) = 1
        /\ san_lines = StripJoined(Normalised)

\* the same, for the texts where the first line h1_pat matches, and every
\* line it matches with the title as text, is a level-1 heading line
C30_OneTitleHeadingAfterH1 ==
    (/\ \E k \in 1..Len(san_md) :
            /\ IsLevel1(san_md[k]) /\ ~IsPlaceholderLine(san_md[k])
            /\ \A q \in 1..(k - 1) :
                   H1Match(san_md[q]) => IsPlaceholderLine(san_md[q])
     /\ \A q \in 1..Len(san_md) :
            H1Match(san_md[q]) /\ H1Group(san_md[q]) = Strip(selected_title)
                => IsLevel1(san_md[q]))
        => C30_OneTitleHeading

====
